---- MODULE Spec2Model ----
(***************************************************************************)
(* Streaming crawl engine of threat_crawler/go_crawler: CrawlStream        *)
(* (crawler.go) driven by main (main.go).  Goroutines are processes, the   *)
(* channels queue/out/done and the two WaitGroups are the shared state.    *)
(* Every access to shared state is one step of the goroutine that makes it.*)
(* The start of both drivers (flags of main.go, JSON document of the batch *)
(* driver: readConfig, setDefaults, validateConfig) is a specification of  *)
(* its own, SpecDriver.                                                    *)
(***************************************************************************)
EXTENDS Naturals, Integers, Sequences, FiniteSets, TLC

(* ---------------------------- bounds ----------------------------------- *)
MaxWorkers == 2        \* --workers ranges over 1..MaxWorkers
MaxPages   == 3        \* --max_pages ranges over 1..MaxPages
MaxDepthBound == 1     \* --max_depth ranges over 0..MaxDepthBound
MaxPagesFair == 2      \* --max_pages ranges over 1..MaxPagesFair under fairness
WindowTicks == 2       \* the inactivity window (30 s), in ticks of the clock
MaxResults == 2        \* c.results holds at most MaxResults results
MaxAttrs == 3          \* a document has at most MaxAttrs attributes

Workers == 1 .. MaxWorkers

None == <<>>

(* ---------------------------- URLs and the site ------------------------ *)
\* A URL is a sequence of tokens; the first token stands for scheme+host.
U_seed == <<"h", "/">>
U_a    == <<"h", "/", "a">>
U_as   == <<"h", "/", "a", "/">>
U_b    == <<"h", "/", "b">>
U_c    == <<"h", "/", "c">>
U_x    == <<"o", "/", "x">>

\* a URL that http.NewRequestWithContext rejects (an invalid escape)
U_bad == <<"h", "/", "%zz">>

Malformed(url) == \E k \in 1 .. Len(url) : url[k] = "%zz"

\* The pages that answer 200 and the links FetchPage extracts from each;
\* any other URL fails at transport level.
SiteMain ==
  ( U_seed :> <<U_a, U_as, U_b, U_x, U_c>> ) @@
  ( U_a    :> <<U_seed, U_b>> ) @@
  ( U_as   :> <<U_seed, U_b>> ) @@
  ( U_b    :> <<U_a>> ) @@
  ( U_c    :> <<>> )

Sites == { SiteMain }

\* a seed with three distinct children (one of them linking on)
SiteThree ==
  ( U_seed :> <<U_a, U_b, U_c>> ) @@
  ( U_a    :> <<U_b>> ) @@
  ( U_b    :> <<>> ) @@
  ( U_c    :> <<U_seed>> )

\* two pages linking to each other: http://h/ -> /loop -> /
U_loop == <<"h", "/", "loop">>
U_bare == <<"h">>
SiteLoop ==
  ( U_seed :> <<U_loop>> ) @@ ( U_loop :> <<U_seed>> )

\* the same, the back link written without the trailing "/"
SiteLoopBare ==
  ( U_seed :> <<U_loop>> ) @@ ( U_loop :> <<U_bare>> ) @@
  ( U_bare :> <<U_loop>> )

\* a chain of pages, each linking to the next and back to the seed
SiteChain ==
  ( U_seed :> <<U_a>> ) @@
  ( U_a    :> <<U_seed, U_b>> ) @@
  ( U_b    :> <<U_a, U_c, U_x>> ) @@
  ( U_c    :> <<>> )

\* a seed linking to a page and to a malformed URL
SiteNet ==
  ( U_seed :> <<U_a, U_bad>> ) @@ ( U_a :> <<U_seed>> )

\* no page answers: every request fails at transport level
SiteDown == <<>>

\* variant: the visited key is the URL as written
normalize_AsWritten(url) == url

\* strings.TrimRight(url, "/")
RECURSIVE normalize(_)
normalize(url) ==
  IF url # <<>> /\ url[Len(url)] = "/"
    THEN normalize(SubSeq(url, 1, Len(url) - 1))
    ELSE url

\* fetcher.go extractDomain: the URL without its scheme, cut at the first
\* "/" (the scheme is part of the host token here)
RECURSIVE extractDomain(_)
extractDomain(url) ==
  IF url = <<>> \/ Head(url) = "/"
    THEN <<>>
    ELSE << Head(url) >> \o extractDomain(Tail(url))

\* the test of categorizeLinks: linkDomain == baseDomain
IsInternal(link, baseURL) == extractDomain(link) = extractDomain(baseURL)

\* categorizeLinks: the links of baseURL's domain and the others, each in
\* the order of the input
categorizeLinks(links, baseURL) ==
  [ internal |-> SelectSeq(links, LAMBDA l : IsInternal(l, baseURL)),
    external |-> SelectSeq(links, LAMBDA l : ~IsInternal(l, baseURL)) ]

\* How the HTTP exchange of one FetchPage call ends.
RespReqErr        == [kind |-> "reqerr",  status |-> 0, links |-> <<>>]
RespDoErr         == [kind |-> "doerr",   status |-> 0, links |-> <<>>]
RespReadErr(code) == [kind |-> "readerr", status |-> code, links |-> <<>>]
RespOk(code, ls)  == [kind |-> "ok",      status |-> code, links |-> ls]

ListFields == {"links", "internal_links", "external_links"}

\* The list fields that are nil slices after the success path of fetcher.go:
\* each list is built by append on a nil slice, so it is nil when nothing
\* was appended.
NilLists(links, cat) ==
  { f \in ListFields :
      \/ f = "links" /\ links = <<>>
      \/ f = "internal_links" /\ cat.internal = <<>>
      \/ f = "external_links" /\ cat.external = <<>> }

\* The body of FetchPage for a given exchange: the *CrawlResult it returns
\* (the returned error is nil on every path).  Depth and Parent-URL are
\* the zero values until the worker stamps them; the failure paths set
\* URL, Status and Error only, so the three lists stay nil.
FailureResult(url, status, error) ==
  [url |-> url, status |-> status, error |-> error,
   links |-> <<>>, internalLinks |-> <<>>, externalLinks |-> <<>>,
   nilLists |-> ListFields, depth |-> 0, parent |-> None]

FetchResult(url, resp) ==
  CASE resp.kind = "reqerr" ->
         FailureResult(url, 0, "Failed to create request")
    [] resp.kind = "doerr" ->
         FailureResult(url, 0, "Request failed")
    [] resp.kind = "readerr" ->
         FailureResult(url, resp.status, "Failed to read response")
    [] resp.kind = "ok" ->
         [url |-> url, status |-> resp.status, error |-> "",
          links |-> resp.links,
          internalLinks |-> categorizeLinks(resp.links, url).internal,
          externalLinks |-> categorizeLinks(resp.links, url).external,
          nilLists |-> NilLists(resp.links, categorizeLinks(resp.links, url)),
          depth |-> 0, parent |-> None]

\* The exchange in a crawl without network faults: a page of the site
\* answers 200 with its links; a cancelled context or an unreachable URL
\* fails in client.Do.
Network(site, cancelled, url) ==
  IF Malformed(url) THEN RespReqErr
  ELSE IF ~cancelled /\ url \in DOMAIN site
    THEN RespOk(200, site[url])
    ELSE RespDoErr

\* The exchanges possible when the network may fail: a page that answers
\* may also be unreachable, or break while its body is read.
Responses(site, cancelled, url) ==
  IF Malformed(url) THEN { RespReqErr }
  ELSE IF ~cancelled /\ url \in DOMAIN site
    THEN { RespOk(200, site[url]), RespDoErr, RespReadErr(200) }
    ELSE { RespDoErr }

\* FetchPage: never fails the caller; a cancelled context or an unreachable
\* URL gives status 0 and no links.
FetchPage(site, cancelled, url) ==
  FetchResult(url, Network(site, cancelled, url))

(* ---------------------------- state ------------------------------------ *)
VARIABLES
  cfg,           \* CrawlConfig + the site: workers, maxLinks, maxDepth, site
  ctxDone,       \* ctx.Done() is closed
  doneClosed,    \* the forced-shutdown channel `done` is closed
  queue,         \* chan QueueItem, capacity 2*MaxLinks
  visited,       \* map[string]struct{} keyed by normalize(url)
  resultsCount,  \* c.resultsCount (atomic)
  inFlight,      \* inFlight WaitGroup counter
  wg,            \* wg WaitGroup counter
  pc,            \* position of every worker
  item,          \* the QueueItem a worker holds (None if none)
  result,        \* the *CrawlResult a worker holds (None if none)
  idx,           \* index of the link the worker is enqueueing
  out,           \* resultsCh buffer, capacity = workers
  outCloses,     \* number of close(out) executed
  onceDone,      \* closeOnce has fired
  monPc,         \* position of the monitor goroutine
  queueDrained,  \* monitor's queueDrained
  fsPc,          \* position of the forced-shutdown goroutine
  crawlReturned, \* main's goroutine has returned from CrawlStream
  exitCode,      \* -1 while running, else the os.Exit status
  written,       \* records the driver has written to stdout
  drvPc,         \* position of main
  input,         \* the flags / the JSON document main was started with
  wdPc,          \* position of the watchdog goroutine
  actPc,         \* position of the goroutine that records lastActivity
  actPending,    \* activityCh (capacity 1) holds a signal
  actAge,        \* time since the instant stored in lastActivity
  recAge,        \* history: time since main last received a record
  results,       \* c.results of the batch crawler
  summary,       \* the CrawlSummary generateSummary returned
  activeJobs,    \* c.activeJobs of the batch crawler
  queueClosed,   \* the batch monitor has closed c.queue
  bmPc,          \* position of the batch monitor goroutine
  body,          \* the attribute values of a fetched document, in order
  pageURL,       \* the URL the document was fetched from
  extracted,     \* what extractLinks and categorizeLinks returned for it
  emitted,       \* history: records sent on out, in order
  fetched        \* history: how many times each URL was passed to FetchPage

batchVars  == << results, summary, activeJobs, queueClosed, bmPc >>
fetchVars  == << body, pageURL, extracted >>

vars == << cfg, ctxDone, doneClosed, queue, visited, resultsCount, inFlight,
           wg, pc, item, result, idx, out, outCloses, onceDone, monPc,
           queueDrained, fsPc, crawlReturned, exitCode, written, drvPc,
           input, batchVars, fetchVars, wdPc, actPc, actPending, actAge, recAge, emitted,
           fetched >>

crawlVars  == << queue, visited, resultsCount, inFlight, wg, pc, item, result,
                 idx, emitted, fetched >>
monVars    == << monPc, queueDrained, onceDone >>
wdVars     == << wdPc, actPc, actPending, actAge, recAge >>
driverVars == << crawlReturned, exitCode, written, drvPc, input, batchVars, fetchVars, wdVars >>

Active     == 1 .. cfg.workers
QueueCap   == cfg.maxLinks * 2
OutCap     == cfg.workers
Running    == exitCode = -1

(* ---------------------------- Init ------------------------------------- *)
\* The state when CrawlStream has seeded the queue (inFlight.Add(1);
\* queue <- seed), started the workers (wg.Add(1) each), the monitor and
\* the forced-shutdown goroutine.
Configs ==
  [ workers : 1 .. MaxWorkers, maxLinks : 1 .. MaxPages,
    maxDepth : 0 .. MaxDepthBound, site : Sites, target : {U_seed},
    timeout : {"30s"} ]

\* the command line that gives configuration c: every flag is set
Keys == {"target", "maxDepth", "maxLinks", "workers", "timeout"}

FlagsOf(c) ==
  [ mode |-> "stream", present |-> Keys, target |-> c.target,
    maxDepth |-> c.maxDepth, maxLinks |-> c.maxLinks,
    workers |-> c.workers, timeout |-> c.timeout ]

InitWith(c) ==
  /\ cfg = c
  /\ ctxDone = FALSE
  /\ doneClosed = FALSE
  /\ queue = << [url |-> c.target, depth |-> 0, parent |-> None] >>
  /\ visited = {}
  /\ resultsCount = 0
  /\ inFlight = 1
  /\ wg = c.workers
  /\ pc = [w \in Workers |-> IF w <= c.workers THEN "loop" ELSE "none"]
  /\ item = [w \in Workers |-> None]
  /\ result = [w \in Workers |-> None]
  /\ idx = [w \in Workers |-> 0]
  /\ out = <<>>
  /\ outCloses = 0
  /\ onceDone = FALSE
  /\ monPc = "wgwait"
  /\ queueDrained = 0
  /\ fsPc = "wait"
  /\ crawlReturned = FALSE
  /\ exitCode = -1
  /\ written = <<>>
  /\ drvPc = "range"
  /\ input = FlagsOf(c)
  /\ wdPc = "run" /\ actPc = "run"
  /\ actPending = FALSE /\ actAge = 0 /\ recAge = 0
  /\ results = <<>> /\ summary = None
  /\ activeJobs = 0 /\ queueClosed = FALSE /\ bmPc = "none"
  /\ body = <<>> /\ pageURL = None /\ extracted = None
  /\ emitted = <<>>
  /\ fetched = <<>>   \* the function with empty domain

Init == \E c \in Configs : InitWith(c)

\* End-to-end runs: the bounded configurations over every site, and the
\* two runs with the limits well above the size of the site.
QuietConfigs ==
  [ workers : 1 .. MaxWorkers, maxLinks : 1 .. MaxPages,
    maxDepth : 0 .. MaxDepthBound,
    site : { SiteMain, SiteThree, SiteLoopBare, SiteDown },
    target : {U_seed}, timeout : {"30s"} ]
  \cup
  [ workers : 1 .. MaxWorkers, maxLinks : {2}, maxDepth : {3},
    site : { SiteThree }, target : {U_seed}, timeout : {"30s"} ]
  \cup
  [ workers : 1 .. MaxWorkers, maxLinks : {50}, maxDepth : {5},
    site : { SiteLoop, SiteLoopBare, SiteChain }, target : {U_seed},
    timeout : {"30s"} ]

InitQuiet == \E c \in QuietConfigs : InitWith(c)

\* the runs explored with a network that may fail
InitNet ==
  \E c \in [ workers : 1 .. MaxWorkers, maxLinks : 1 .. MaxPages,
              maxDepth : 0 .. MaxDepthBound, site : { SiteNet },
              target : {U_seed}, timeout : {"30s"} ] : InitWith(c)

\* the configurations explored by the specifications with fairness
InitFair == \E c \in Configs : c.maxLinks <= MaxPagesFair /\ InitWith(c)

(* ---------------------------- worker ----------------------------------- *)
Set(w, f, v) == [f EXCEPT ![w] = v]

\* crawler.go:304  if item.Depth > c.config.MaxDepth { return }
TooDeep(depth, maxDepth) == depth > maxDepth

\* variant: the limit test is off by one
OverLimit_OffByOne(count, maxLinks) == count > maxLinks + 1

\* crawler.go:329  if count > int32(c.config.MaxLinks) { return }
OverLimit(count, maxLinks) == count > maxLinks

\* variant: the depth test of the enqueue gate admits depth = MaxDepth
MayEnqueue_DepthInclusive(count, maxLinks, depth, maxDepth) ==
  count < maxLinks /\ depth <= maxDepth

\* variant: the count test of the enqueue gate admits count = MaxLinks
MayEnqueue_CountInclusive(count, maxLinks, depth, maxDepth) ==
  count <= maxLinks /\ depth < maxDepth

\* crawler.go:341  resultsCount < MaxLinks && item.Depth < MaxDepth
MayEnqueue(count, maxLinks, depth, maxDepth) ==
  count < maxLinks /\ depth < maxDepth

\* variant: the record is stamped with the depth of the item's children
Stamp_ChildDepth(res, it) ==
  [res EXCEPT !.depth = it.depth + 1, !.parent = it.parent]

\* crawler.go:322-326  result.Depth = item.Depth; Headers["Parent-URL"] = item.Parent
Stamp(res, it) ==
  [res EXCEPT !.depth = it.depth, !.parent = it.parent]

\* variant: the child is given the depth of its parent
Child_ParentDepth(link, it) ==
  [url |-> link, depth |-> it.depth, parent |-> it.url]

\* variant: the child names itself as its parent
Child_OwnParent(link, it) ==
  [url |-> link, depth |-> it.depth + 1, parent |-> link]

\* crawler.go:350  QueueItem{URL: link, Depth: item.Depth + 1, Parent: item.URL}
Child(link, it) == [url |-> link, depth |-> it.depth + 1, parent |-> it.url]

\* variant: the loop only receives from the queue
WorkerSelect_NoCancel(w) ==
  /\ Running /\ pc[w] = "loop"
  /\ queue # <<>>
  /\ item' = Set(w, item, Head(queue))
  /\ queue' = Tail(queue)
  /\ pc' = Set(w, pc, "check")
  /\ UNCHANGED << cfg, ctxDone, doneClosed, visited, resultsCount, inFlight,
                  wg, result, idx, out, outCloses, fsPc, emitted, fetched >>
  /\ UNCHANGED monVars /\ UNCHANGED driverVars

\* select at the top of the worker loop: ctx.Done / done / item := <-queue
WorkerSelect(w) ==
  /\ Running /\ pc[w] = "loop"
  /\ \/ /\ ctxDone \/ doneClosed
        /\ pc' = Set(w, pc, "exited")
        /\ wg' = wg - 1                       \* defer wg.Done()
        /\ UNCHANGED << queue, item >>
     \/ /\ queue # <<>>
        /\ item' = Set(w, item, Head(queue))
        /\ queue' = Tail(queue)
        /\ pc' = Set(w, pc, "check")
        /\ wg' = wg
  /\ UNCHANGED << cfg, ctxDone, doneClosed, visited, resultsCount, inFlight,
                  result, idx, out, outCloses, fsPc, emitted, fetched >>
  /\ UNCHANGED monVars /\ UNCHANGED driverVars

\* depth gate, then the lookup in visited under the read lock
WorkerCheck(w) ==
  /\ Running /\ pc[w] = "check"
  /\ IF TooDeep(item[w].depth, cfg.maxDepth)
       THEN pc' = Set(w, pc, "ret")
       ELSE IF normalize(item[w].url) \in visited
              THEN pc' = Set(w, pc, "ret")
              ELSE pc' = Set(w, pc, "mark")
  /\ UNCHANGED << cfg, ctxDone, doneClosed, queue, visited, resultsCount,
                  inFlight, wg, item, result, idx, out, outCloses, fsPc,
                  emitted, fetched >>
  /\ UNCHANGED monVars /\ UNCHANGED driverVars

\* insertion into visited under the write lock (no second lookup)
WorkerMark(w) ==
  /\ Running /\ pc[w] = "mark"
  /\ visited' = visited \cup { normalize(item[w].url) }
  /\ pc' = Set(w, pc, "fetch")
  /\ UNCHANGED << cfg, ctxDone, doneClosed, queue, resultsCount, inFlight, wg,
                  item, result, idx, out, outCloses, fsPc, emitted, fetched >>
  /\ UNCHANGED monVars /\ UNCHANGED driverVars

\* c.fetcher.FetchPage(ctx, item.URL), then depth and Parent-URL are set
WorkerFetch(w) ==
  /\ Running /\ pc[w] = "fetch"
  /\ result' = Set(w, result,
                   Stamp(FetchPage(cfg.site, ctxDone, item[w].url), item[w]))
  /\ fetched' = IF item[w].url \in DOMAIN fetched
                  THEN [fetched EXCEPT ![item[w].url] = @ + 1]
                  ELSE fetched @@ (item[w].url :> 1)
  /\ pc' = Set(w, pc, "count")
  /\ UNCHANGED << cfg, ctxDone, doneClosed, queue, visited, resultsCount,
                  inFlight, wg, item, idx, out, outCloses, fsPc, emitted >>
  /\ UNCHANGED monVars /\ UNCHANGED driverVars

\* the same call when the network may fail
WorkerFetchNet(w) ==
  /\ Running /\ pc[w] = "fetch"
  /\ \E resp \in Responses(cfg.site, ctxDone, item[w].url) :
       result' = Set(w, result,
                     Stamp(FetchResult(item[w].url, resp), item[w]))
  /\ fetched' = IF item[w].url \in DOMAIN fetched
                  THEN [fetched EXCEPT ![item[w].url] = @ + 1]
                  ELSE fetched @@ (item[w].url :> 1)
  /\ pc' = Set(w, pc, "count")
  /\ UNCHANGED << cfg, ctxDone, doneClosed, queue, visited, resultsCount,
                  inFlight, wg, item, idx, out, outCloses, fsPc, emitted >>
  /\ UNCHANGED monVars /\ UNCHANGED driverVars

\* count := atomic.AddInt32(&c.resultsCount, 1); over the limit: return
WorkerCount(w) ==
  /\ Running /\ pc[w] = "count"
  /\ resultsCount' = resultsCount + 1
  /\ pc' = Set(w, pc, IF OverLimit(resultsCount', cfg.maxLinks)
                        THEN "ret" ELSE "send")
  /\ UNCHANGED << cfg, ctxDone, doneClosed, queue, visited, inFlight, wg,
                  item, result, idx, out, outCloses, fsPc, emitted, fetched >>
  /\ UNCHANGED monVars /\ UNCHANGED driverVars

\* variant: an aborted emission gives its count back
WorkerSend_UncountAborted(w) ==
  /\ Running /\ pc[w] = "send"
  /\ \/ /\ ctxDone \/ doneClosed
        /\ pc' = Set(w, pc, "ret")
        /\ resultsCount' = resultsCount - 1
        /\ UNCHANGED << out, emitted, inFlight, wg, item >>
     \/ /\ outCloses > 0 \/ Len(out) < OutCap
        /\ resultsCount' = resultsCount
        /\ IF outCloses > 0
             THEN /\ pc' = Set(w, pc, "exited")
                  /\ inFlight' = inFlight - 1
                  /\ wg' = wg - 1
                  /\ item' = Set(w, item, None)
                  /\ UNCHANGED << out, emitted >>
             ELSE /\ out' = Append(out, result[w])
                  /\ emitted' = Append(emitted,
                        [url |-> result[w].url, depth |-> result[w].depth,
                         parent |-> result[w].parent,
                         status |-> result[w].status, late |-> ctxDone])
                  /\ pc' = Set(w, pc, "gate")
                  /\ UNCHANGED << inFlight, wg, item >>
  /\ UNCHANGED << cfg, ctxDone, doneClosed, queue, visited,
                  result, idx, outCloses, fsPc, fetched >>
  /\ UNCHANGED monVars /\ UNCHANGED driverVars

\* select { <-ctx.Done(): return; <-done: return; out <- result }
\* A send on a closed channel panics: the deferred inFlight.Done() and
\* wg.Done() run and recover() ends the worker.
WorkerSend(w) ==
  /\ Running /\ pc[w] = "send"
  /\ \/ /\ ctxDone \/ doneClosed
        /\ pc' = Set(w, pc, "ret")
        /\ UNCHANGED << out, emitted, inFlight, wg, item >>
     \/ /\ outCloses > 0 \/ Len(out) < OutCap
        /\ IF outCloses > 0
             THEN /\ pc' = Set(w, pc, "exited")
                  /\ inFlight' = inFlight - 1
                  /\ wg' = wg - 1
                  /\ item' = Set(w, item, None)
                  /\ UNCHANGED << out, emitted >>
             ELSE /\ out' = Append(out, result[w])
                  /\ emitted' = Append(emitted,
                        [url |-> result[w].url, depth |-> result[w].depth,
                         parent |-> result[w].parent,
                         status |-> result[w].status, late |-> ctxDone])
                  /\ pc' = Set(w, pc, "gate")
                  /\ UNCHANGED << inFlight, wg, item >>
  /\ UNCHANGED << cfg, ctxDone, doneClosed, queue, visited, resultsCount,
                  result, idx, outCloses, fsPc, fetched >>
  /\ UNCHANGED monVars /\ UNCHANGED driverVars

\* atomic.LoadInt32(&c.resultsCount) < MaxLinks && item.Depth < MaxDepth
WorkerGate(w) ==
  /\ Running /\ pc[w] = "gate"
  /\ IF MayEnqueue(resultsCount, cfg.maxLinks, item[w].depth, cfg.maxDepth)
       THEN pc' = Set(w, pc, "link") /\ idx' = Set(w, idx, 1)
       ELSE pc' = Set(w, pc, "ret") /\ idx' = idx
  /\ UNCHANGED << cfg, ctxDone, doneClosed, queue, visited, resultsCount,
                  inFlight, wg, item, result, out, outCloses, fsPc, emitted,
                  fetched >>
  /\ UNCHANGED monVars /\ UNCHANGED driverVars

\* for _, link := range result.Links: lookup of normalize(link) in visited
WorkerLink(w) ==
  /\ Running /\ pc[w] = "link"
  /\ IF idx[w] > Len(result[w].links)
       THEN pc' = Set(w, pc, "ret") /\ idx' = idx
       ELSE IF normalize(result[w].links[idx[w]]) \in visited
              THEN pc' = pc /\ idx' = Set(w, idx, idx[w] + 1)
              ELSE pc' = Set(w, pc, "add") /\ idx' = idx
  /\ UNCHANGED << cfg, ctxDone, doneClosed, queue, visited, resultsCount,
                  inFlight, wg, item, result, out, outCloses, fsPc, emitted,
                  fetched >>
  /\ UNCHANGED monVars /\ UNCHANGED driverVars

\* inFlight.Add(1)
WorkerAdd(w) ==
  /\ Running /\ pc[w] = "add"
  /\ inFlight' = inFlight + 1
  /\ pc' = Set(w, pc, "enq")
  /\ UNCHANGED << cfg, ctxDone, doneClosed, queue, visited, resultsCount, wg,
                  item, result, idx, out, outCloses, fsPc, emitted, fetched >>
  /\ UNCHANGED monVars /\ UNCHANGED driverVars

\* variant: a pre-empted send returns without undoing inFlight.Add(1)
WorkerEnq_NoUndo(w) ==
  /\ Running /\ pc[w] = "enq"
  /\ \/ /\ Len(queue) < QueueCap
        /\ queue' = Append(queue, Child(result[w].links[idx[w]], item[w]))
        /\ idx' = Set(w, idx, idx[w] + 1)
        /\ pc' = Set(w, pc, "link")
     \/ /\ ctxDone \/ doneClosed
        /\ pc' = Set(w, pc, "ret")
        /\ idx' = idx
        /\ queue' = queue
  /\ UNCHANGED << cfg, ctxDone, doneClosed, visited, resultsCount, wg, item,
                  inFlight, result, out, outCloses, fsPc, emitted, fetched >>
  /\ UNCHANGED monVars /\ UNCHANGED driverVars

\* select { queue <- child; <-ctx.Done(): inFlight.Done(); return;
\*          <-done: inFlight.Done(); return }   -- there is no default case
WorkerEnq(w) ==
  /\ Running /\ pc[w] = "enq"
  /\ \/ /\ Len(queue) < QueueCap
        /\ queue' = Append(queue, Child(result[w].links[idx[w]], item[w]))
        /\ idx' = Set(w, idx, idx[w] + 1)
        /\ pc' = Set(w, pc, "link")
        /\ inFlight' = inFlight
     \/ /\ ctxDone \/ doneClosed
        /\ inFlight' = inFlight - 1
        /\ pc' = Set(w, pc, "ret")
        /\ idx' = idx
        /\ queue' = queue
  /\ UNCHANGED << cfg, ctxDone, doneClosed, visited, resultsCount, wg, item,
                  result, out, outCloses, fsPc, emitted, fetched >>
  /\ UNCHANGED monVars /\ UNCHANGED driverVars

\* variant: the per-item function returns without inFlight.Done()
WorkerRet_NoDone(w) ==
  /\ Running /\ pc[w] = "ret"
  /\ item' = Set(w, item, None)
  /\ result' = Set(w, result, None)
  /\ idx' = Set(w, idx, 0)
  /\ pc' = Set(w, pc, "loop")
  /\ UNCHANGED << cfg, ctxDone, doneClosed, queue, visited, resultsCount, wg,
                  inFlight, out, outCloses, fsPc, emitted, fetched >>
  /\ UNCHANGED monVars /\ UNCHANGED driverVars

\* defer inFlight.Done(): runs on every return of the per-item function
WorkerRet(w) ==
  /\ Running /\ pc[w] = "ret"
  /\ inFlight' = inFlight - 1
  /\ item' = Set(w, item, None)
  /\ result' = Set(w, result, None)
  /\ idx' = Set(w, idx, 0)
  /\ pc' = Set(w, pc, "loop")
  /\ UNCHANGED << cfg, ctxDone, doneClosed, queue, visited, resultsCount, wg,
                  out, outCloses, fsPc, emitted, fetched >>
  /\ UNCHANGED monVars /\ UNCHANGED driverVars

Worker(w) ==
  \/ WorkerSelect(w) \/ WorkerCheck(w) \/ WorkerMark(w) \/ WorkerFetch(w)
  \/ WorkerCount(w) \/ WorkerSend(w) \/ WorkerGate(w) \/ WorkerLink(w)
  \/ WorkerAdd(w) \/ WorkerEnq(w) \/ WorkerRet(w)

WorkerNet(w) ==
  \/ WorkerSelect(w) \/ WorkerCheck(w) \/ WorkerMark(w) \/ WorkerFetchNet(w)
  \/ WorkerCount(w) \/ WorkerSend(w) \/ WorkerGate(w) \/ WorkerLink(w)
  \/ WorkerAdd(w) \/ WorkerEnq(w) \/ WorkerRet(w)

(* ---------------------------- monitor ---------------------------------- *)
\* variant: the monitor does not wait for the workers
MonitorWgWait_NoWait ==
  /\ Running /\ monPc = "wgwait"
  /\ monPc' = "drainsel"
  /\ UNCHANGED << cfg, ctxDone, doneClosed, out, outCloses, fsPc,
                  queueDrained, onceDone >>
  /\ UNCHANGED crawlVars /\ UNCHANGED driverVars

\* wg.Wait()
MonitorWgWait ==
  /\ Running /\ monPc = "wgwait"
  /\ wg = 0
  /\ monPc' = "drainsel"
  /\ UNCHANGED << cfg, ctxDone, doneClosed, out, outCloses, fsPc,
                  queueDrained, onceDone >>
  /\ UNCHANGED crawlVars /\ UNCHANGED driverVars

\* outer select { case <-ctx.Done(): drain loop; default: break }
MonitorDrainSelect ==
  /\ Running /\ monPc = "drainsel"
  /\ monPc' = IF ctxDone THEN "drain" ELSE "wait"
  /\ UNCHANGED << cfg, ctxDone, doneClosed, out, outCloses, fsPc,
                  queueDrained, onceDone >>
  /\ UNCHANGED crawlVars /\ UNCHANGED driverVars

\* variant: drained items are not marked done
MonitorDrain_NoDone ==
  /\ Running /\ monPc = "drain"
  /\ IF queue # <<>>
       THEN /\ queue' = Tail(queue)
            /\ queueDrained' = queueDrained + 1
            /\ monPc' = monPc
       ELSE /\ monPc' = "wait"
            /\ UNCHANGED << queue, queueDrained >>
  /\ UNCHANGED << cfg, ctxDone, doneClosed, out, outCloses, fsPc, onceDone,
                  visited, resultsCount, wg, pc, item, result, idx, emitted,
                  fetched, inFlight >>
  /\ UNCHANGED driverVars

\* inner select { case <-queue: inFlight.Done(); queueDrained++
\*                default: goto drained }
MonitorDrain ==
  /\ Running /\ monPc = "drain"
  /\ IF queue # <<>>
       THEN /\ queue' = Tail(queue)
            /\ inFlight' = inFlight - 1
            /\ queueDrained' = queueDrained + 1
            /\ monPc' = monPc
       ELSE /\ monPc' = "wait"
            /\ UNCHANGED << queue, inFlight, queueDrained >>
  /\ UNCHANGED << cfg, ctxDone, doneClosed, out, outCloses, fsPc, onceDone,
                  visited, resultsCount, wg, pc, item, result, idx, emitted,
                  fetched >>
  /\ UNCHANGED driverVars

\* select { case <-doneCh (inFlight.Wait() returned);
\*          case <-time.After(10s): os.Exit(2) }
MonitorWait ==
  /\ Running /\ monPc = "wait"
  /\ IF inFlight = 0
       THEN monPc' = "close" /\ exitCode' = exitCode
       ELSE monPc' = "fatal" /\ exitCode' = 2
  /\ UNCHANGED << cfg, ctxDone, doneClosed, out, outCloses, fsPc,
                  queueDrained, onceDone, crawlReturned, written,
                  drvPc, input, batchVars, fetchVars, wdVars >>
  /\ UNCHANGED crawlVars

\* closeOnce.Do(func() { close(out) })
MonitorClose ==
  /\ Running /\ monPc = "close"
  /\ IF onceDone
       THEN UNCHANGED << outCloses, onceDone >>
       ELSE outCloses' = outCloses + 1 /\ onceDone' = TRUE
  /\ monPc' = "end"
  /\ UNCHANGED << cfg, ctxDone, doneClosed, out, fsPc, queueDrained >>
  /\ UNCHANGED crawlVars /\ UNCHANGED driverVars

Monitor ==
  \/ MonitorWgWait \/ MonitorDrainSelect \/ MonitorDrain \/ MonitorWait
  \/ MonitorClose

\* variant: done is closed without waiting for the cancellation
ForcedShutdown_NoWait ==
  /\ Running /\ fsPc = "wait"
  /\ doneClosed' = TRUE
  /\ fsPc' = "end"
  /\ UNCHANGED << cfg, ctxDone, out, outCloses >>
  /\ UNCHANGED crawlVars /\ UNCHANGED monVars /\ UNCHANGED driverVars

\* forced-shutdown goroutine: select { case <-ctx.Done(): close(done) }
ForcedShutdown ==
  /\ Running /\ fsPc = "wait"
  /\ ctxDone
  /\ doneClosed' = TRUE
  /\ fsPc' = "end"
  /\ UNCHANGED << cfg, ctxDone, out, outCloses >>
  /\ UNCHANGED crawlVars /\ UNCHANGED monVars /\ UNCHANGED driverVars

(* ---------------------------- driver (main) ---------------------------- *)
\* context.WithTimeout(context.Background(), 5*time.Minute) expires
DeadlineExpires ==
  /\ Running /\ ~ctxDone
  /\ ctxDone' = TRUE
  /\ UNCHANGED << cfg, doneClosed, out, outCloses, fsPc >>
  /\ UNCHANGED crawlVars /\ UNCHANGED monVars /\ UNCHANGED driverVars

\* <-c (os.Interrupt, SIGTERM); cancel()
InterruptReceived ==
  /\ Running /\ ~ctxDone
  /\ ctxDone' = TRUE
  /\ UNCHANGED << cfg, doneClosed, out, outCloses, fsPc >>
  /\ UNCHANGED crawlVars /\ UNCHANGED monVars /\ UNCHANGED driverVars

\* watchdog: time.Since(lastActivity) > inactivity; cancel()
\* (time is not modelled: the window may elapse in any state)
InactivityTimeout ==
  /\ Running /\ ~ctxDone
  /\ ctxDone' = TRUE
  /\ UNCHANGED << cfg, doneClosed, out, outCloses, fsPc >>
  /\ UNCHANGED crawlVars /\ UNCHANGED monVars /\ UNCHANGED driverVars

\* variant: main's goroutine closes resultsCh after CrawlStream returns
DriverCrawlReturn_Closes ==
  /\ Running /\ ~crawlReturned
  /\ crawlReturned' = TRUE
  /\ outCloses' = outCloses + 1
  /\ UNCHANGED << cfg, ctxDone, doneClosed, out, fsPc, exitCode, written,
                  drvPc, input, batchVars, fetchVars, wdVars >>
  /\ UNCHANGED crawlVars /\ UNCHANGED monVars

\* go func() { crawler.CrawlStream(ctx, resultsCh) }() returns; it does
\* not close resultsCh
DriverCrawlReturn ==
  /\ Running /\ ~crawlReturned
  /\ crawlReturned' = TRUE
  /\ UNCHANGED << cfg, ctxDone, doneClosed, out, outCloses, fsPc, exitCode,
                  written,
                  drvPc, input, batchVars, fetchVars, wdVars >>
  /\ UNCHANGED crawlVars /\ UNCHANGED monVars

\* for result := range resultsCh { encoder.Encode(result) }
DriverReceive ==
  /\ Running /\ out # <<>>
  /\ written' = Append(written, Head(out))
  /\ out' = Tail(out)
  /\ UNCHANGED << cfg, ctxDone, doneClosed, outCloses, fsPc, crawlReturned,
                  exitCode,
                  drvPc, input, batchVars, fetchVars, wdVars >>
  /\ UNCHANGED crawlVars /\ UNCHANGED monVars

\* variant: main exits as soon as the channel is closed
DriverExit_AtClose ==
  /\ Running /\ outCloses > 0
  /\ exitCode' = 0
  /\ UNCHANGED << cfg, ctxDone, doneClosed, out, outCloses, fsPc,
                  crawlReturned, written,
                  drvPc, input, batchVars, fetchVars, wdVars >>
  /\ UNCHANGED crawlVars /\ UNCHANGED monVars

\* the range loop ends on the closed, empty channel; os.Exit(0)
DriverExit ==
  /\ Running /\ out = <<>> /\ outCloses > 0
  /\ exitCode' = 0
  /\ UNCHANGED << cfg, ctxDone, doneClosed, out, outCloses, fsPc,
                  crawlReturned, written,
                  drvPc, input, batchVars, fetchVars, wdVars >>
  /\ UNCHANGED crawlVars /\ UNCHANGED monVars

(* ---------------------------- watchdog (main) -------------------------- *)
\* Time passes: both ages grow (they are not counted beyond the window).
AgeCap == WindowTicks + 1

Tick ==
  /\ Running
  /\ actAge' = IF actAge < AgeCap THEN actAge + 1 ELSE actAge
  /\ recAge' = IF recAge < AgeCap THEN recAge + 1 ELSE recAge
  /\ actAge' # actAge \/ recAge' # recAge
  /\ UNCHANGED << cfg, ctxDone, doneClosed, out, outCloses, fsPc,
                  crawlReturned, exitCode, written, drvPc, input, batchVars, fetchVars, wdPc,
                  actPc, actPending >>
  /\ UNCHANGED crawlVars /\ UNCHANGED monVars

\* for result := range resultsCh {
\*   select { case activityCh <- struct{}{}: default: }; encoder.Encode(result) }
DriverReceiveSignal ==
  /\ Running /\ out # <<>>
  /\ written' = Append(written, Head(out))
  /\ out' = Tail(out)
  /\ actPending' = TRUE
  /\ recAge' = 0
  /\ UNCHANGED << cfg, ctxDone, doneClosed, outCloses, fsPc, crawlReturned,
                  exitCode, drvPc, input, batchVars, fetchVars, wdPc, actPc, actAge >>
  /\ UNCHANGED crawlVars /\ UNCHANGED monVars

\* select { case <-activityCh: lastActivity = time.Now()
\*          case <-ctx.Done(): return }
ActivityUpdate ==
  /\ Running /\ actPc = "run"
  /\ \/ /\ actPending
        /\ actPending' = FALSE
        /\ actAge' = 0
        /\ actPc' = actPc
     \/ /\ ctxDone
        /\ actPc' = "end"
        /\ UNCHANGED << actPending, actAge >>
  /\ UNCHANGED << cfg, ctxDone, doneClosed, out, outCloses, fsPc,
                  crawlReturned, exitCode, written, drvPc, input, batchVars, fetchVars, wdPc,
                  recAge >>
  /\ UNCHANGED crawlVars /\ UNCHANGED monVars

\* time.Sleep(5s); if time.Since(lastActivity) > inactivity { cancel(); return }
\* (a check that finds the window not elapsed changes nothing)
WatchdogCheck ==
  /\ Running /\ wdPc = "run"
  /\ actAge > WindowTicks
  /\ ctxDone' = TRUE
  /\ wdPc' = "end"
  /\ UNCHANGED << cfg, doneClosed, out, outCloses, fsPc, crawlReturned,
                  exitCode, written, drvPc, input, batchVars, fetchVars, actPc, actPending,
                  actAge, recAge >>
  /\ UNCHANGED crawlVars /\ UNCHANGED monVars

(* ---------------------------- older CrawlStream ----------------------- *)
\* The older CrawlStream: the depth gate, the lookup, the insert, the link
\* lookup, inFlight.Add(1) and the deferred inFlight.Done() are the steps
\* WorkerCheck, WorkerMark, WorkerLink, WorkerAdd and WorkerRet; the steps
\* below are the ones that differ.  There is no results counter and no
\* recover().
oldFrame == << cfg, resultsCount, crawlReturned, written, drvPc, input,
               results, summary, activeJobs, bmPc, fetchVars, wdVars,
               queueDrained >>

\* select { case <-ctx.Done(): return
\*          case item, ok := <-queue: if !ok { return } ... }
OldWorkerSelect(w) ==
  /\ Running /\ pc[w] = "loop"
  /\ \/ /\ ctxDone \/ (queue = <<>> /\ queueClosed)
        /\ pc' = Set(w, pc, "exited")
        /\ wg' = wg - 1
        /\ UNCHANGED << queue, item >>
     \/ /\ queue # <<>>
        /\ item' = Set(w, item, Head(queue))
        /\ queue' = Tail(queue)
        /\ pc' = Set(w, pc, "check")
        /\ wg' = wg
  /\ UNCHANGED << ctxDone, doneClosed, visited, inFlight, result, idx, out,
                  outCloses, onceDone, monPc, fsPc, queueClosed, exitCode,
                  emitted, fetched >>
  /\ UNCHANGED oldFrame

\* result, _ := c.fetcher.FetchPage(ctx, item.URL); depth and Parent-URL
OldWorkerFetch(w) ==
  /\ Running /\ pc[w] = "fetch"
  /\ result' = Set(w, result,
                   Stamp(FetchPage(cfg.site, ctxDone, item[w].url), item[w]))
  /\ fetched' = IF item[w].url \in DOMAIN fetched
                  THEN [fetched EXCEPT ![item[w].url] = @ + 1]
                  ELSE fetched @@ (item[w].url :> 1)
  /\ pc' = Set(w, pc, "send")
  /\ UNCHANGED << ctxDone, doneClosed, queue, visited, inFlight, wg, item,
                  idx, out, outCloses, onceDone, monPc, fsPc, queueClosed,
                  exitCode, emitted >>
  /\ UNCHANGED oldFrame

\* out <- result, outside any select: the worker waits for room; when out
\* is closed, before or while it waits, the send panics and the process
\* dies.  Then: if item.Depth < MaxDepth { for _, link := range ... }
OldWorkerSend(w) ==
  /\ Running /\ pc[w] = "send"
  /\ outCloses > 0 \/ Len(out) < OutCap
  /\ IF outCloses > 0
       THEN /\ pc' = Set(w, pc, "panic")
            /\ exitCode' = 2
            /\ UNCHANGED << out, emitted, idx >>
       ELSE /\ out' = Append(out, result[w])
            /\ emitted' = Append(emitted,
                  [url |-> result[w].url, depth |-> result[w].depth,
                   parent |-> result[w].parent,
                   status |-> result[w].status, late |-> ctxDone])
            /\ exitCode' = exitCode
            /\ IF item[w].depth < cfg.maxDepth
                 THEN pc' = Set(w, pc, "link") /\ idx' = Set(w, idx, 1)
                 ELSE pc' = Set(w, pc, "ret") /\ idx' = idx
  /\ UNCHANGED << ctxDone, doneClosed, queue, visited, inFlight, wg, item,
                  result, outCloses, onceDone, monPc, fsPc, queueClosed,
                  fetched >>
  /\ UNCHANGED oldFrame

\* queue <- QueueItem{...}, outside any select: the worker waits for room
OldWorkerEnq(w) ==
  /\ Running /\ pc[w] = "enq"
  /\ queueClosed \/ Len(queue) < QueueCap
  /\ IF queueClosed
       THEN /\ pc' = Set(w, pc, "panic")
            /\ exitCode' = 2
            /\ UNCHANGED << queue, idx >>
       ELSE /\ queue' = Append(queue, Child(result[w].links[idx[w]], item[w]))
            /\ idx' = Set(w, idx, idx[w] + 1)
            /\ pc' = Set(w, pc, "link")
            /\ exitCode' = exitCode
  /\ UNCHANGED << ctxDone, doneClosed, visited, inFlight, wg, item, result,
                  out, outCloses, onceDone, monPc, fsPc, queueClosed,
                  emitted, fetched >>
  /\ UNCHANGED oldFrame

OldWorker(w) ==
  \/ OldWorkerSelect(w) \/ WorkerCheck(w) \/ WorkerMark(w)
  \/ OldWorkerFetch(w) \/ OldWorkerSend(w) \/ WorkerLink(w) \/ WorkerAdd(w)
  \/ OldWorkerEnq(w) \/ WorkerRet(w)

\* inner goroutine: inFlight.Wait(); close(queue)
OldWaiterInFlight ==
  /\ Running /\ monPc = "inflight"
  /\ inFlight = 0
  /\ queueClosed' = TRUE
  /\ monPc' = "workers"
  /\ UNCHANGED << ctxDone, doneClosed, queue, visited, inFlight, wg, pc,
                  item, result, idx, out, outCloses, onceDone, fsPc,
                  exitCode, emitted, fetched >>
  /\ UNCHANGED oldFrame

\* wg.Wait(); closeOnce.Do(func() { close(out) })
OldWaiterClose ==
  /\ Running /\ monPc = "workers"
  /\ wg = 0
  /\ IF onceDone
       THEN UNCHANGED << outCloses, onceDone >>
       ELSE outCloses' = outCloses + 1 /\ onceDone' = TRUE
  /\ monPc' = "signal"
  /\ UNCHANGED << ctxDone, doneClosed, queue, visited, inFlight, wg, pc,
                  item, result, idx, out, fsPc, queueClosed, exitCode,
                  emitted, fetched >>
  /\ UNCHANGED oldFrame

\* close(done)
OldWaiterSignal ==
  /\ Running /\ monPc = "signal"
  /\ doneClosed' = TRUE
  /\ monPc' = "end"
  /\ UNCHANGED << ctxDone, queue, visited, inFlight, wg, pc, item, result,
                  idx, out, outCloses, onceDone, fsPc, queueClosed,
                  exitCode, emitted, fetched >>
  /\ UNCHANGED oldFrame

\* monitor: select { case <-done:  case <-ctx.Done(): ... }
OldMonitorSelect ==
  /\ Running /\ fsPc = "select"
  /\ \/ doneClosed /\ fsPc' = "end"
     \/ ctxDone /\ fsPc' = "grace"
  /\ UNCHANGED << ctxDone, doneClosed, queue, visited, inFlight, wg, pc,
                  item, result, idx, out, outCloses, onceDone, monPc,
                  queueClosed, exitCode, emitted, fetched >>
  /\ UNCHANGED oldFrame

\* worker w has exited or waits in an unguarded send that has no room
OldBlocked(w) ==
  \/ pc[w] = "exited"
  \/ pc[w] = "send" /\ Len(out) = OutCap
  \/ pc[w] = "enq" /\ Len(queue) = QueueCap

\* select { case <-done:
\*          case <-time.After(10 * time.Second): closeOnce.Do(close(out)) }
\* Time is not modelled: the ten seconds are taken to pass only while no
\* goroutine of the crawl can take a step, every worker being blocked or
\* gone and the waiter still waiting.
OldMonitorGrace ==
  /\ Running /\ fsPc = "grace"
  /\ \/ /\ doneClosed
        /\ UNCHANGED << outCloses, onceDone >>
     \/ /\ \A w \in Active : OldBlocked(w)
        /\ \/ monPc = "inflight" /\ inFlight # 0
           \/ monPc = "workers" /\ wg # 0
        /\ IF onceDone
             THEN UNCHANGED << outCloses, onceDone >>
             ELSE outCloses' = outCloses + 1 /\ onceDone' = TRUE
  /\ fsPc' = "end"
  /\ UNCHANGED << ctxDone, doneClosed, queue, visited, inFlight, wg, pc,
                  item, result, idx, out, monPc, queueClosed, exitCode,
                  emitted, fetched >>
  /\ UNCHANGED oldFrame

OldMonitor ==
  \/ OldWaiterInFlight \/ OldWaiterClose \/ OldWaiterSignal
  \/ OldMonitorSelect \/ OldMonitorGrace

(* ---------------------------- batch crawl (Crawl) --------------------- *)
\* what no step of the batch crawl changes
batchFrame == << cfg, ctxDone, doneClosed, inFlight, out, outCloses, fsPc,
                 emitted, fetched, monVars, crawlReturned, written, input,
                 summary, fetchVars, wdVars >>

\* Page{URL: link, Depth: depth}
Page(url, depth) == [url |-> url, depth |-> depth]

\* worker: select { case <-ctx.Done(): return        (never ready in Crawl)
\*                  case page, ok := <-c.queue: if !ok { return } ... }
\* with the deferred c.wg.Done()
BatchWorkerRecv(w) ==
  /\ Running /\ drvPc = "crawl" /\ pc[w] = "recv"
  /\ \/ /\ queue # <<>>
        /\ item' = Set(w, item, Head(queue))
        /\ queue' = Tail(queue)
        /\ pc' = Set(w, pc, "active")
        /\ wg' = wg
     \/ /\ queue = <<>> /\ queueClosed
        /\ pc' = Set(w, pc, "exited")
        /\ wg' = wg - 1
        /\ UNCHANGED << item, queue >>
  /\ UNCHANGED << visited, resultsCount, result, idx, results, activeJobs,
                  queueClosed, bmPc, exitCode, drvPc >>
  /\ UNCHANGED batchFrame

\* processPage: atomic.AddInt32(&c.activeJobs, 1)
ProcessPageActive(w) ==
  /\ Running /\ drvPc = "crawl" /\ pc[w] = "active"
  /\ activeJobs' = activeJobs + 1
  /\ pc' = Set(w, pc, "lookup")
  /\ UNCHANGED << queue, visited, resultsCount, wg, item, result, idx,
                  results, queueClosed, bmPc, exitCode, drvPc >>
  /\ UNCHANGED batchFrame

\* if _, exists := c.visited[page.URL]; exists { return }
ProcessPageLookup(w) ==
  /\ Running /\ drvPc = "crawl" /\ pc[w] = "lookup"
  /\ pc' = Set(w, pc, IF item[w].url \in visited THEN "done" ELSE "mark")
  /\ UNCHANGED << queue, visited, resultsCount, wg, item, result, idx,
                  results, activeJobs, queueClosed, bmPc, exitCode, drvPc >>
  /\ UNCHANGED batchFrame

\* c.visited[page.URL] = VisitedPage{...}
ProcessPageMark(w) ==
  /\ Running /\ drvPc = "crawl" /\ pc[w] = "mark"
  /\ visited' = visited \cup { item[w].url }
  /\ pc' = Set(w, pc, "limits")
  /\ UNCHANGED << queue, resultsCount, wg, item, result, idx, results,
                  activeJobs, queueClosed, bmPc, exitCode, drvPc >>
  /\ UNCHANGED batchFrame

\* if page.Depth > MaxDepth { return }
\* if atomic.LoadInt32(&c.resultsCount) >= MaxLinks { return }
\* result, err := c.fetcher.FetchPage(ctx, page.URL); result.Depth = page.Depth
ProcessPageFetch(w) ==
  /\ Running /\ drvPc = "crawl" /\ pc[w] = "limits"
  /\ IF item[w].depth > cfg.maxDepth \/ resultsCount >= cfg.maxLinks
       THEN pc' = Set(w, pc, "done") /\ result' = result
       ELSE /\ pc' = Set(w, pc, "count")
            /\ result' = Set(w, result,
                 [FetchPage(cfg.site, FALSE, item[w].url)
                    EXCEPT !.depth = item[w].depth])
  /\ UNCHANGED << queue, visited, resultsCount, wg, item, idx, results,
                  activeJobs, queueClosed, bmPc, exitCode, drvPc >>
  /\ UNCHANGED batchFrame

\* variant: the result is appended whatever the counter says
ProcessPageCount_NoLimit(w) ==
  /\ Running /\ drvPc = "crawl" /\ pc[w] = "count"
  /\ resultsCount' = resultsCount + 1
  /\ pc' = Set(w, pc, "append")
  /\ UNCHANGED << queue, visited, wg, item, result, idx, results, activeJobs,
                  queueClosed, bmPc, exitCode, drvPc >>
  /\ UNCHANGED batchFrame

\* if atomic.AddInt32(&c.resultsCount, 1) > MaxLinks { return }
ProcessPageCount(w) ==
  /\ Running /\ drvPc = "crawl" /\ pc[w] = "count"
  /\ resultsCount' = resultsCount + 1
  /\ pc' = Set(w, pc, IF resultsCount' > cfg.maxLinks
                        THEN "done" ELSE "append")
  /\ UNCHANGED << queue, visited, wg, item, result, idx, results, activeJobs,
                  queueClosed, bmPc, exitCode, drvPc >>
  /\ UNCHANGED batchFrame

\* c.results = append(c.results, result); currentCount := len(c.results)
\* if page.Depth < MaxDepth && currentCount < MaxLinks { addLinksToQueue }
ProcessPageAppend(w) ==
  /\ Running /\ drvPc = "crawl" /\ pc[w] = "append"
  /\ results' = Append(results, result[w])
  /\ IF item[w].depth < cfg.maxDepth /\ Len(results') < cfg.maxLinks
       THEN pc' = Set(w, pc, "links") /\ idx' = Set(w, idx, 1)
       ELSE pc' = Set(w, pc, "done") /\ idx' = idx
  /\ UNCHANGED << queue, visited, resultsCount, wg, item, result,
                  activeJobs, queueClosed, bmPc, exitCode, drvPc >>
  /\ UNCHANGED batchFrame

\* addLinksToQueue: for _, link := range links { lookup in c.visited }
AddLinksLookup(w) ==
  /\ Running /\ drvPc = "crawl" /\ pc[w] = "links"
  /\ IF idx[w] > Len(result[w].internalLinks)
       THEN pc' = Set(w, pc, "done") /\ idx' = idx
       ELSE IF result[w].internalLinks[idx[w]] \in visited
              THEN pc' = pc /\ idx' = Set(w, idx, idx[w] + 1)
              ELSE pc' = Set(w, pc, "send") /\ idx' = idx
  /\ UNCHANGED << queue, visited, resultsCount, wg, item, result, results,
                  activeJobs, queueClosed, bmPc, exitCode, drvPc >>
  /\ UNCHANGED batchFrame

\* select { case c.queue <- Page{URL: link, Depth: depth}: default: }
\* A send on a closed channel panics; nothing in the batch crawler
\* recovers, so the process dies with status 2.
AddLinksSend(w) ==
  /\ Running /\ drvPc = "crawl" /\ pc[w] = "send"
  /\ IF queueClosed
       THEN /\ pc' = Set(w, pc, "panic")
            /\ exitCode' = 2
            /\ UNCHANGED << queue, idx >>
       ELSE /\ queue' = IF Len(queue) < QueueCap
                          THEN Append(queue,
                                 Page(result[w].internalLinks[idx[w]],
                                      item[w].depth + 1))
                          ELSE queue
            /\ idx' = Set(w, idx, idx[w] + 1)
            /\ pc' = Set(w, pc, "links")
            /\ exitCode' = exitCode
  /\ UNCHANGED << visited, resultsCount, wg, item, result, results,
                  activeJobs, queueClosed, bmPc, drvPc >>
  /\ UNCHANGED batchFrame

\* defer atomic.AddInt32(&c.activeJobs, -1); back to the loop of worker
ProcessPageDone(w) ==
  /\ Running /\ drvPc = "crawl" /\ pc[w] = "done"
  /\ activeJobs' = activeJobs - 1
  /\ item' = Set(w, item, None)
  /\ result' = Set(w, result, None)
  /\ idx' = Set(w, idx, 0)
  /\ pc' = Set(w, pc, "recv")
  /\ UNCHANGED << queue, visited, resultsCount, wg, results, queueClosed,
                  bmPc, exitCode, drvPc >>
  /\ UNCHANGED batchFrame

BatchWorker(w) ==
  \/ BatchWorkerRecv(w) \/ ProcessPageActive(w) \/ ProcessPageLookup(w)
  \/ ProcessPageMark(w) \/ ProcessPageFetch(w) \/ ProcessPageCount(w)
  \/ ProcessPageAppend(w) \/ AddLinksLookup(w) \/ AddLinksSend(w)
  \/ ProcessPageDone(w)

\* monitor: time.Sleep(100ms); currentCount := len(c.results)
\* if currentCount >= MaxLinks { close(c.queue); return }
BatchMonitorCount ==
  /\ Running /\ drvPc = "crawl" /\ bmPc = "count"
  /\ IF Len(results) >= cfg.maxLinks
       THEN queueClosed' = TRUE /\ bmPc' = "end"
       ELSE queueClosed' = queueClosed /\ bmPc' = "active"
  /\ UNCHANGED << queue, visited, resultsCount, wg, pc, item, result, idx,
                  results, activeJobs, exitCode, drvPc >>
  /\ UNCHANGED batchFrame

\* atomic.LoadInt32(&c.activeJobs) == 0 && ...
BatchMonitorActive ==
  /\ Running /\ drvPc = "crawl" /\ bmPc = "active"
  /\ bmPc' = IF activeJobs = 0 THEN "len" ELSE "count"
  /\ UNCHANGED << queue, visited, resultsCount, wg, pc, item, result, idx,
                  results, activeJobs, queueClosed, exitCode, drvPc >>
  /\ UNCHANGED batchFrame

\* ... && len(c.queue) == 0 { close(c.queue); return }
BatchMonitorLen ==
  /\ Running /\ drvPc = "crawl" /\ bmPc = "len"
  /\ IF queue = <<>>
       THEN queueClosed' = TRUE /\ bmPc' = "end"
       ELSE queueClosed' = queueClosed /\ bmPc' = "count"
  /\ UNCHANGED << queue, visited, resultsCount, wg, pc, item, result, idx,
                  results, activeJobs, exitCode, drvPc >>
  /\ UNCHANGED batchFrame

BatchMonitor == BatchMonitorCount \/ BatchMonitorActive \/ BatchMonitorLen

\* c.wg.Wait() returns
BatchWait ==
  /\ Running /\ drvPc = "crawl"
  /\ wg = 0
  /\ drvPc' = "summary"
  /\ UNCHANGED << queue, visited, resultsCount, wg, pc, item, result, idx,
                  results, activeJobs, queueClosed, bmPc, exitCode >>
  /\ UNCHANGED batchFrame

(* ---------------------------- batch summary --------------------------- *)
\* for _, result := range c.results { ... }: the four accumulators of the
\* loop of generateSummary, as a fold from the left.
RECURSIVE SummaryLoop(_, _)
SummaryLoop(rs, acc) ==
  IF rs = <<>> THEN acc
  ELSE LET r == Head(rs)
           a1 == IF r.status = 200
                   THEN [acc EXCEPT !.successful = @ + 1]
                   ELSE [acc EXCEPT !.failed = @ + 1]
           a2 == IF r.depth > a1.max_depth_reached
                   THEN [a1 EXCEPT !.max_depth_reached = r.depth]
                   ELSE a1
       IN SummaryLoop(Tail(rs),
            [a2 EXCEPT !.internal_links = @ + Len(r.internalLinks),
                       !.external_links = @ + Len(r.externalLinks)])

\* variant: only a result without an answer (status 0) counts as failed
generateSummary_FailedIsNoAnswer(rs) ==
  LET s == SummaryLoop(rs,
             [total_pages |-> Len(rs), successful |-> 0, failed |-> 0,
              internal_links |-> 0, external_links |-> 0,
              max_depth_reached |-> 0])
  IN [s EXCEPT !.failed = Len(SelectSeq(rs, LAMBDA r : r.status = 0))]

generateSummary(rs) ==
  SummaryLoop(rs,
    [total_pages |-> Len(rs), successful |-> 0, failed |-> 0,
     internal_links |-> 0, external_links |-> 0,
     max_depth_reached |-> 0])

\* Crawl's return: Summary: c.generateSummary()
BatchSummary ==
  /\ Running /\ drvPc = "summary"
  /\ summary' = generateSummary(results)
  /\ drvPc' = "output"
  /\ UNCHANGED << cfg, ctxDone, doneClosed, out, outCloses, fsPc,
                  crawlReturned, exitCode, written, input, results,
                  activeJobs, queueClosed, bmPc, fetchVars, wdVars >>
  /\ UNCHANGED crawlVars /\ UNCHANGED monVars

(* ---------------------------- link extraction ------------------------- *)
\* A document is the sequence of its attributes in the order the walk of
\* the parse tree meets them; an attribute value is a sequence of tokens
\* like a URL: <<"/", "a">> is the reference /a, <<"#", "top">> a fragment,
\* " " is white space.
RECURSIVE TrimLeft(_)
TrimLeft(val) ==
  IF val # <<>> /\ Head(val) = " " THEN TrimLeft(Tail(val)) ELSE val

RECURSIVE TrimRight(_)
TrimRight(val) ==
  IF val # <<>> /\ val[Len(val)] = " "
    THEN TrimRight(SubSeq(val, 1, Len(val) - 1))
    ELSE val

\* strings.TrimSpace
TrimSpace(val) == TrimRight(TrimLeft(val))

\* the scheme and host of a URL: its tokens before the first "/"
RECURSIVE Authority(_)
Authority(url) ==
  IF url = <<>> \/ Head(url) = "/"
    THEN <<>>
    ELSE << Head(url) >> \o Authority(Tail(url))

\* base.ResolveReference(u).String(): a reference that starts with "/"
\* takes scheme and host from the base, an absolute one is kept
ResolveReference(base, ref) ==
  IF Head(ref) = "/" THEN Authority(base) \o ref ELSE ref

\* key is href, src or action, and the trimmed value is not empty, not a
\* fragment and not a javascript: reference
IsLinkAttr(attr) ==
  /\ attr.key \in {"href", "src", "action"}
  /\ TrimSpace(attr.val) # <<>>
  /\ Head(TrimSpace(attr.val)) \notin {"#", "javascript:"}

\* the walk f(doc): links holds what was appended so far; seen has the
\* same elements
RECURSIVE ExtractWalk(_, _, _)
ExtractWalk(attrs, base, links) ==
  IF attrs = <<>> THEN links
  ELSE LET attr == Head(attrs)
           absStr == ResolveReference(base, TrimSpace(attr.val))
           seen == { links[i] : i \in 1 .. Len(links) }
       IN IF IsLinkAttr(attr) /\ absStr \notin seen
            THEN ExtractWalk(Tail(attrs), base, Append(links, absStr))
            ELSE ExtractWalk(Tail(attrs), base, links)

\* variant: every link attribute is appended, seen is not consulted
extractLinks_NoSeen(attrs, base) ==
  LET kept == SelectSeq(attrs, IsLinkAttr)
  IN [ i \in 1 .. Len(kept) |->
         ResolveReference(base, TrimSpace(kept[i].val)) ]

\* extractLinks(htmlContent, baseURL) of the HTML-parsing fetcher
extractLinks(attrs, base) == ExtractWalk(attrs, base, <<>>)

\* links := extractLinks(string(body), url)
FetcherExtract ==
  /\ Running /\ drvPc = "fetch" /\ extracted = None
  /\ extracted' = [ links |-> extractLinks(body, pageURL) ]
  /\ UNCHANGED << cfg, ctxDone, doneClosed, out, outCloses, fsPc,
                  crawlReturned, exitCode, written, drvPc, input, batchVars,
                  body, pageURL, wdVars >>
  /\ UNCHANGED crawlVars /\ UNCHANGED monVars

\* extractDomain of the HTML-parsing fetcher: u.Hostname() without a
\* leading "www."
extractDomainHostname(url) ==
  LET host == Authority(url)
  IN IF host # <<>> /\ Head(host) = "www." THEN Tail(host) ELSE host

\* categorizeLinks of the HTML-parsing fetcher
categorizeLinksHostname(links, baseURL) ==
  LET same(l) == extractDomainHostname(l) = extractDomainHostname(baseURL)
  IN [ internal |-> SelectSeq(links, same),
       external |-> SelectSeq(links, LAMBDA l : ~same(l)) ]

\* internalLinks, externalLinks := categorizeLinks(links, url), fetcher.go
FetcherCategorize ==
  /\ Running /\ drvPc = "fetch"
  /\ extracted # None /\ DOMAIN extracted = {"links"}
  /\ LET cat == categorizeLinks(extracted.links, pageURL)
     IN extracted' = [ links |-> extracted.links,
                       internal |-> cat.internal, external |-> cat.external ]
  /\ UNCHANGED << cfg, ctxDone, doneClosed, out, outCloses, fsPc,
                  crawlReturned, exitCode, written, drvPc, input, batchVars,
                  body, pageURL, wdVars >>
  /\ UNCHANGED crawlVars /\ UNCHANGED monVars

\* the same call in the HTML-parsing fetcher
FetcherCategorizeHostname ==
  /\ Running /\ drvPc = "fetch"
  /\ extracted # None /\ DOMAIN extracted = {"links"}
  /\ LET cat == categorizeLinksHostname(extracted.links, pageURL)
     IN extracted' = [ links |-> extracted.links,
                       internal |-> cat.internal, external |-> cat.external ]
  /\ UNCHANGED << cfg, ctxDone, doneClosed, out, outCloses, fsPc,
                  crawlReturned, exitCode, written, drvPc, input, batchVars,
                  body, pageURL, wdVars >>
  /\ UNCHANGED crawlVars /\ UNCHANGED monVars

(* ---------------------------- configuration --------------------------- *)
\* What main is started with: the flags of the streaming driver (every
\* flag set), or the JSON document of the batch driver, where `present`
\* holds the fields the document contains.
FlagSets ==
  [ mode : {"stream"}, present : {Keys}, target : {<<>>, U_seed},
    maxDepth : -1 .. MaxDepthBound, maxLinks : -1 .. MaxPagesFair,
    workers : -1 .. MaxWorkers, timeout : {"", "30s"} ]

JsonDocs ==
  { d \in [ mode : {"batch"}, present : SUBSET Keys,
            target : {<<>>, U_seed}, maxDepth : -1 .. MaxDepthBound,
            maxLinks : -1 .. MaxPagesFair, workers : -1 .. MaxWorkers,
            timeout : {"", "30s"} ] :
      /\ "target" \notin d.present => d.target = <<>>
      /\ "maxDepth" \notin d.present => d.maxDepth = 0
      /\ "maxLinks" \notin d.present => d.maxLinks = 0
      /\ "workers" \notin d.present => d.workers = 0
      /\ "timeout" \notin d.present => d.timeout = "" }

\* the zero CrawlConfig
NoConfig ==
  [ workers |-> 0, maxLinks |-> 0, maxDepth |-> 0, site |-> SiteMain,
    target |-> <<>>, timeout |-> "" ]

\* json.Decoder.Decode(&config): a field the document lacks keeps its zero
\* value
Decode(doc) ==
  [ NoConfig EXCEPT
      !.target   = IF "target" \in doc.present THEN doc.target ELSE @,
      !.maxDepth = IF "maxDepth" \in doc.present THEN doc.maxDepth ELSE @,
      !.maxLinks = IF "maxLinks" \in doc.present THEN doc.maxLinks ELSE @,
      !.workers  = IF "workers" \in doc.present THEN doc.workers ELSE @,
      !.timeout  = IF "timeout" \in doc.present THEN doc.timeout ELSE @ ]

DefaultMaxConcurrency == 10
DefaultMaxLinks == 100
DefaultMaxDepth == 3

\* setDefaults: every field that holds its zero value gets the default
setDefaults(config) ==
  [ config EXCEPT
      !.timeout  = IF @ = "" THEN "30s" ELSE @,
      !.workers  = IF @ = 0 THEN DefaultMaxConcurrency ELSE @,
      !.maxLinks = IF @ = 0 THEN DefaultMaxLinks ELSE @,
      !.maxDepth = IF @ = 0 THEN DefaultMaxDepth ELSE @ ]

\* readConfig: decode, then setDefaults
readConfig(doc) == setDefaults(Decode(doc))

\* validateConfig: the error it returns, "" for nil
validateConfig(config) ==
  IF config.target = <<>> THEN "target_url is required"
  ELSE IF config.maxDepth < 0 THEN "max_depth must be >= 0"
  ELSE IF config.maxLinks <= 0 THEN "max_links must be > 0"
  ELSE IF config.workers <= 0 THEN "max_concurrency must be > 0"
  ELSE IF config.timeout = "" THEN "timeout is required"
  ELSE ""

\* main of the streaming driver: flag.Parse(); the test of --start_url;
\* the CrawlConfig built from the flags
MainParseFlags ==
  /\ Running /\ drvPc = "start" /\ input.mode = "stream"
  /\ cfg' = [ NoConfig EXCEPT
                !.target = input.target, !.maxDepth = input.maxDepth,
                !.maxLinks = input.maxLinks, !.workers = input.workers,
                !.timeout = input.timeout ]
  /\ IF input.target = <<>>
       THEN exitCode' = 1 /\ drvPc' = "exit"
       ELSE exitCode' = exitCode /\ drvPc' = "new"
  /\ UNCHANGED << ctxDone, doneClosed, out, outCloses, fsPc, crawlReturned,
                  written, input, batchVars, fetchVars, wdVars >>
  /\ UNCHANGED crawlVars /\ UNCHANGED monVars

\* NewCrawler(config) and make(chan *CrawlResult, *workers): make panics
\* on a negative size and the process ends with status 2
MainNewCrawler ==
  /\ Running /\ drvPc = "new"
  /\ IF cfg.maxLinks < 0 \/ cfg.workers < 0
       THEN exitCode' = 2 /\ drvPc' = "exit"
       ELSE exitCode' = exitCode /\ drvPc' = "go"
  /\ UNCHANGED << cfg, ctxDone, doneClosed, out, outCloses, fsPc,
                  crawlReturned, written, input, batchVars, fetchVars, wdVars >>
  /\ UNCHANGED crawlVars /\ UNCHANGED monVars

\* The two watchdog goroutines are started, then
\* go crawler.CrawlStream(ctx, resultsCh) runs up to the start of its
\* goroutines.  With MaxLinks = 0 the queue has no buffer and the seed's
\* send blocks before any goroutine is started.
MainCrawlStream ==
  /\ Running /\ drvPc = "go"
  /\ inFlight' = 1
  /\ IF cfg.maxLinks = 0
       THEN UNCHANGED << queue, wg, pc, monPc, fsPc >>
       ELSE /\ queue' = << [url |-> cfg.target, depth |-> 0,
                            parent |-> None] >>
            /\ wg' = cfg.workers
            /\ pc' = [w \in Workers |->
                        IF w <= cfg.workers THEN "loop" ELSE "none"]
            /\ monPc' = "wgwait"
            /\ fsPc' = "wait"
  /\ drvPc' = "range"
  /\ wdPc' = "run" /\ actPc' = "run"
  /\ UNCHANGED << cfg, ctxDone, doneClosed, visited, resultsCount, item,
                  result, idx, out, outCloses, onceDone, queueDrained,
                  crawlReturned, exitCode, written, input, batchVars, fetchVars, actPending, actAge, recAge, emitted,
                  fetched >>

\* main of the batch driver: readConfig(*inputFile)
BatchReadConfig ==
  /\ Running /\ drvPc = "start" /\ input.mode = "batch"
  /\ cfg' = readConfig(input)
  /\ drvPc' = "validate"
  /\ UNCHANGED << ctxDone, doneClosed, out, outCloses, fsPc, crawlReturned,
                  exitCode, written, input, batchVars, fetchVars, wdVars >>
  /\ UNCHANGED crawlVars /\ UNCHANGED monVars

\* validateConfig(config); log.Fatalf exits with status 1; otherwise
\* NewCrawler(config) and crawler.Crawl()
BatchValidate ==
  /\ Running /\ drvPc = "validate"
  /\ IF validateConfig(cfg) # ""
       THEN exitCode' = 1 /\ drvPc' = "exit"
       ELSE exitCode' = exitCode /\ drvPc' = "crawl"
  /\ UNCHANGED << cfg, ctxDone, doneClosed, out, outCloses, fsPc,
                  crawlReturned, written, input, batchVars, fetchVars, wdVars >>
  /\ UNCHANGED crawlVars /\ UNCHANGED monVars

(* ---------------------------- specification ---------------------------- *)
Next ==
  \/ \E w \in Workers : Worker(w)
  \/ Monitor
  \/ ForcedShutdown
  \/ DeadlineExpires
  \/ InterruptReceived
  \/ InactivityTimeout
  \/ DriverCrawlReturn
  \/ DriverReceive
  \/ DriverExit

Spec == Init /\ [][Next]_vars

\* The Go scheduler runs every runnable goroutine: workers, the monitor and
\* the forced-shutdown goroutine keep taking steps while they can.
CrawlFairness ==
  /\ \A w \in Workers : WF_vars(Worker(w))
  /\ WF_vars(Monitor)
  /\ WF_vars(ForcedShutdown)

SpecCancel == InitFair /\ [][Next]_vars /\ CrawlFairness

\* In addition the 5-minute deadline timer fires and main keeps ranging
\* over resultsCh.
SpecFair ==
  /\ InitFair /\ [][Next]_vars
  /\ CrawlFairness
  /\ WF_vars(DeadlineExpires)
  /\ WF_vars(DriverReceive)
  /\ WF_vars(DriverExit)

\* The watchdog with the time it waits for: the inactivity window elapses
\* only when no record arrives for that long, i.e. when main has received
\* every record and every worker waits (for an item on the empty queue, or
\* for room in the full queue).
Waiting(w) ==
  \/ pc[w] = "loop" /\ queue = <<>>
  \/ pc[w] = "enq" /\ Len(queue) >= QueueCap

Idle == out = <<>> /\ \A w \in Active : Waiting(w)

InactivityTimeoutIdle == Idle /\ InactivityTimeout

\* A run that nothing cuts short: no interrupt, no 5-minute deadline, and
\* pages fetched faster than the inactivity window.
NextQuiet ==
  \/ \E w \in Workers : Worker(w)
  \/ Monitor
  \/ ForcedShutdown
  \/ InactivityTimeoutIdle
  \/ DriverCrawlReturn
  \/ DriverReceive
  \/ DriverExit

SpecQuiet == InitQuiet /\ [][NextQuiet]_vars

\* The same runs with the goroutines scheduled, the watchdog's ticker
\* firing and main ranging over resultsCh.
SpecQuietFair ==
  /\ InitQuiet /\ [][NextQuiet]_vars
  /\ CrawlFairness
  /\ WF_vars(InactivityTimeoutIdle)
  /\ WF_vars(DriverReceive)
  /\ WF_vars(DriverExit)

\* The crawl over a network that may fail.
NextNet ==
  \/ \E w \in Workers : WorkerNet(w)
  \/ Monitor
  \/ ForcedShutdown
  \/ DeadlineExpires
  \/ InterruptReceived
  \/ InactivityTimeout
  \/ DriverCrawlReturn
  \/ DriverReceive
  \/ DriverExit

SpecNet == InitNet /\ [][NextNet]_vars

\* The crawl with the clock and the watchdog as main.go has them; the
\* watchdog is the only source of cancellation.
InitWatch ==
  \E c \in [ workers : 1 .. MaxWorkers, maxLinks : 1 .. MaxPagesFair,
              maxDepth : 0 .. MaxDepthBound, site : { SiteThree },
              target : {U_seed}, timeout : {"30s"} ] : InitWith(c)

NextWatch ==
  \/ \E w \in Workers : Worker(w)
  \/ Monitor
  \/ ForcedShutdown
  \/ Tick
  \/ WatchdogCheck
  \/ ActivityUpdate
  \/ DriverReceiveSignal
  \/ DriverCrawlReturn
  \/ DriverExit

SpecWatch == InitWatch /\ [][NextWatch]_vars

\* The start of main, before any goroutine of the crawl exists.
InitDriver ==
  /\ input \in FlagSets \cup JsonDocs
  /\ cfg = NoConfig
  /\ drvPc = "start"
  /\ exitCode = -1
  /\ ctxDone = FALSE /\ doneClosed = FALSE
  /\ queue = <<>> /\ visited = {} /\ resultsCount = 0
  /\ inFlight = 0 /\ wg = 0
  /\ pc = [w \in Workers |-> "none"]
  /\ item = [w \in Workers |-> None]
  /\ result = [w \in Workers |-> None]
  /\ idx = [w \in Workers |-> 0]
  /\ out = <<>> /\ outCloses = 0 /\ onceDone = FALSE
  /\ monPc = "none" /\ queueDrained = 0 /\ fsPc = "none"
  /\ crawlReturned = FALSE /\ written = <<>>
  /\ wdPc = "none" /\ actPc = "none"
  /\ actPending = FALSE /\ actAge = 0 /\ recAge = 0
  /\ results = <<>> /\ summary = None
  /\ activeJobs = 0 /\ queueClosed = FALSE /\ bmPc = "none"
  /\ body = <<>> /\ pageURL = None /\ extracted = None
  /\ emitted = <<>> /\ fetched = <<>>

NextDriver ==
  \/ MainParseFlags
  \/ MainNewCrawler
  \/ MainCrawlStream
  \/ BatchReadConfig
  \/ BatchValidate

SpecDriver == InitDriver /\ [][NextDriver]_vars

\* generateSummary on its own: c.results is any list of at most
\* MaxResults results of the shapes FetchPage returns, at depths 0 .. 2.
SummaryResults ==
  { [FetchResult(U_seed, resp) EXCEPT !.depth = d] :
      resp \in { RespDoErr, RespOk(200, << U_a, U_x >>), RespOk(404, <<>>) },
      d \in 0 .. 2 }

ResultLists ==
  UNION { [1 .. n -> SummaryResults] : n \in 0 .. MaxResults }

InitSummary ==
  /\ input = [ mode |-> "batch", present |-> {"target"}, target |-> U_seed,
               maxDepth |-> 0, maxLinks |-> 0, workers |-> 0,
               timeout |-> "" ]
  /\ cfg = setDefaults(Decode(input))
  /\ drvPc = "summary"
  /\ results \in ResultLists
  /\ summary = None
  /\ activeJobs = 0 /\ queueClosed = FALSE /\ bmPc = "none"
  /\ exitCode = -1
  /\ ctxDone = FALSE /\ doneClosed = FALSE
  /\ queue = <<>> /\ visited = {} /\ resultsCount = 0
  /\ inFlight = 0 /\ wg = 0
  /\ pc = [w \in Workers |-> "none"]
  /\ item = [w \in Workers |-> None]
  /\ result = [w \in Workers |-> None]
  /\ idx = [w \in Workers |-> 0]
  /\ out = <<>> /\ outCloses = 0 /\ onceDone = FALSE
  /\ monPc = "none" /\ queueDrained = 0 /\ fsPc = "none"
  /\ crawlReturned = FALSE /\ written = <<>>
  /\ wdPc = "none" /\ actPc = "none"
  /\ actPending = FALSE /\ actAge = 0 /\ recAge = 0
  /\ body = <<>> /\ pageURL = None /\ extracted = None
  /\ emitted = <<>> /\ fetched = <<>>

SpecSummary == InitSummary /\ [][BatchSummary]_vars

\* The fetcher on one document: FetchPage after the body was read.
U_www == <<"www.", "h", "/">>
U_wa  == <<"www.", "h", "/", "a">>

DocAttrs ==
  { [key |-> "href", val |-> v] :
      v \in { <<"/", "a">>, <<" ", "/", "a", " ">>, U_a, U_wa, U_x,
              <<"#", "top">>, <<>>, <<"javascript:", "f">> } }
  \cup { [key |-> "src", val |-> <<"/", "b">>],
         [key |-> "class", val |-> <<"/", "a">>] }

Documents == UNION { [1 .. n -> DocAttrs] : n \in 0 .. MaxAttrs }

InitFetcher ==
  /\ body \in Documents
  /\ pageURL \in { U_seed, U_www }
  /\ extracted = None
  /\ drvPc = "fetch"
  /\ input = [ mode |-> "batch", present |-> {"target"}, target |-> pageURL,
               maxDepth |-> 0, maxLinks |-> 0, workers |-> 0,
               timeout |-> "" ]
  /\ cfg = setDefaults(Decode(input))
  /\ results = <<>> /\ summary = None
  /\ activeJobs = 0 /\ queueClosed = FALSE /\ bmPc = "none"
  /\ exitCode = -1
  /\ ctxDone = FALSE /\ doneClosed = FALSE
  /\ queue = <<>> /\ visited = {} /\ resultsCount = 0
  /\ inFlight = 0 /\ wg = 0
  /\ pc = [w \in Workers |-> "none"]
  /\ item = [w \in Workers |-> None]
  /\ result = [w \in Workers |-> None]
  /\ idx = [w \in Workers |-> 0]
  /\ out = <<>> /\ outCloses = 0 /\ onceDone = FALSE
  /\ monPc = "none" /\ queueDrained = 0 /\ fsPc = "none"
  /\ crawlReturned = FALSE /\ written = <<>>
  /\ wdPc = "none" /\ actPc = "none"
  /\ actPending = FALSE /\ actAge = 0 /\ recAge = 0
  /\ emitted = <<>> /\ fetched = <<>>

NextFetcher ==
  \/ FetcherExtract
  \/ FetcherCategorize
  \/ FetcherCategorizeHostname

SpecFetcher == InitFetcher /\ [][NextFetcher]_vars

\* Crawl after it has started its workers, seeded the queue and started
\* its monitor.
BatchConfigs ==
  [ workers : 1 .. MaxWorkers, maxLinks : 1 .. MaxPages,
    maxDepth : 0 .. MaxDepthBound, site : { SiteMain, SiteThree },
    target : {U_seed}, timeout : {"30s"} ]

InitBatch ==
  /\ cfg \in BatchConfigs
  /\ input = [ mode |-> "batch",
               present |-> {"target", "maxDepth", "maxLinks", "workers"},
               target |-> cfg.target, maxDepth |-> cfg.maxDepth,
               maxLinks |-> cfg.maxLinks, workers |-> cfg.workers,
               timeout |-> "" ]
  /\ drvPc = "crawl"
  /\ queue = << Page(cfg.target, 0) >>
  /\ visited = {} /\ resultsCount = 0
  /\ wg = cfg.workers
  /\ pc = [w \in Workers |-> IF w <= cfg.workers THEN "recv" ELSE "none"]
  /\ item = [w \in Workers |-> None]
  /\ result = [w \in Workers |-> None]
  /\ idx = [w \in Workers |-> 0]
  /\ results = <<>>
  /\ summary = None
  /\ activeJobs = 0 /\ queueClosed = FALSE /\ bmPc = "count"
  /\ exitCode = -1
  /\ ctxDone = FALSE /\ doneClosed = FALSE
  /\ inFlight = 0
  /\ out = <<>> /\ outCloses = 0 /\ onceDone = FALSE
  /\ monPc = "none" /\ queueDrained = 0 /\ fsPc = "none"
  /\ crawlReturned = FALSE /\ written = <<>>
  /\ wdPc = "none" /\ actPc = "none"
  /\ actPending = FALSE /\ actAge = 0 /\ recAge = 0
  /\ body = <<>> /\ pageURL = None /\ extracted = None
  /\ emitted = <<>> /\ fetched = <<>>

NextBatch ==
  \/ \E w \in Workers : BatchWorker(w)
  \/ BatchMonitor
  \/ BatchWait
  \/ BatchSummary

SpecBatch == InitBatch /\ [][NextBatch]_vars

\* The older CrawlStream after it has seeded the queue and started its
\* workers and its monitor, with main ranging over the stream.
OldConfigs ==
  [ workers : 1 .. MaxWorkers, maxLinks : 1 .. MaxPagesFair,
    maxDepth : 0 .. MaxDepthBound, site : { SiteThree },
    target : {U_seed}, timeout : {"30s"} ]

InitOld ==
  /\ cfg \in OldConfigs
  /\ input = FlagsOf(cfg)
  /\ drvPc = "range"
  /\ ctxDone = FALSE /\ doneClosed = FALSE
  /\ queue = << [url |-> cfg.target, depth |-> 0, parent |-> None] >>
  /\ queueClosed = FALSE
  /\ visited = {} /\ resultsCount = 0
  /\ inFlight = 1
  /\ wg = cfg.workers
  /\ pc = [w \in Workers |-> IF w <= cfg.workers THEN "loop" ELSE "none"]
  /\ item = [w \in Workers |-> None]
  /\ result = [w \in Workers |-> None]
  /\ idx = [w \in Workers |-> 0]
  /\ out = <<>> /\ outCloses = 0 /\ onceDone = FALSE
  /\ monPc = "inflight" /\ queueDrained = 0 /\ fsPc = "select"
  /\ crawlReturned = FALSE /\ written = <<>>
  /\ exitCode = -1
  /\ wdPc = "none" /\ actPc = "none"
  /\ actPending = FALSE /\ actAge = 0 /\ recAge = 0
  /\ results = <<>> /\ summary = None
  /\ activeJobs = 0 /\ bmPc = "none"
  /\ body = <<>> /\ pageURL = None /\ extracted = None
  /\ emitted = <<>> /\ fetched = <<>>

NextOld ==
  \/ \E w \in Workers : OldWorker(w)
  \/ OldMonitor
  \/ DeadlineExpires
  \/ DriverReceive
  \/ DriverExit

SpecOld == InitOld /\ [][NextOld]_vars

(* ---------------------------- properties ------------------------------- *)
Emitted == 1 .. Len(emitted)
Holding(w) == item[w] # None
Exited  == \A w \in Active : pc[w] = "exited"

\* C1: the number of records sent on the output stream never exceeds
\* max_pages, for every number of workers and every interleaving.
C1_EmittedAtMostMaxPages == Len(emitted) <= cfg.maxLinks

\* the cap is reached and a further fetched record was refused by the gate
C1_Witness ==
  /\ Len(emitted) = cfg.maxLinks
  /\ resultsCount > cfg.maxLinks
  /\ cfg.workers = 2

\* C2: no two records sent on the output stream have the same normalized URL.
C2_NoUrlEmittedTwice ==
  \A i, j \in Emitted :
    i # j => normalize(emitted[i].url) # normalize(emitted[j].url)

\* C3: the output stream is never closed more than once.
C3_ClosedAtMostOnce == outCloses <= 1

\* the monitor has closed the stream and main's goroutine has returned
C3_Witness == outCloses = 1 /\ onceDone /\ monPc = "end" /\ crawlReturned

C6_DepthAtMostMaxDepth ==
  \A i \in Emitted : emitted[i].depth <= cfg.maxDepth

\* a page at depth max_depth >= 1 that has links was emitted
C6_Witness ==
  \E i \in Emitted :
    /\ emitted[i].depth = cfg.maxDepth
    /\ cfg.maxDepth >= 1
    /\ emitted[i].url \in DOMAIN cfg.site
    /\ cfg.site[emitted[i].url] # <<>>

\* C7: a worker that enqueues a child while the queue is full and nothing is
\* cancelled is not blocked: its send step can be taken (dropping the child).
C7_FullQueueSendDoesNotBlock ==
  \A w \in Workers :
    (pc[w] = "enq" /\ Len(queue) = QueueCap /\ ~ctxDone /\ ~doneClosed)
      => ENABLED WorkerEnq(w)

\* C9 (as stated): no record is sent on the output stream once the context
\* has been cancelled.
C9_NoRecordAfterCancel == \A i \in Emitted : ~emitted[i].late

\* C9 (amended): after cancellation a held item is released with exactly one
\* in-flight decrement: every release decrements the counter by one, and the
\* counter only ever drops by one, for a release, an undone child send or a
\* drained item.  A record is still sent only by the output select of a
\* worker holding the item, when the stream has room.
C9_HeldItemReleasedOnce ==
  [][ ctxDone =>
        /\ \A w \in Workers :
             (Holding(w) /\ ~Holding(w)') => inFlight' = inFlight - 1
        /\ inFlight' < inFlight =>
             /\ inFlight' = inFlight - 1
             /\ \/ \E w \in Workers : Holding(w) /\ ~Holding(w)'
                \/ \E w \in Workers : pc[w] = "enq" /\ pc'[w] = "ret"
                \/ monPc = "drain" /\ Len(queue') = Len(queue) - 1
        /\ emitted' # emitted =>
             \E w \in Workers :
               /\ pc[w] = "send" /\ Holding(w) /\ Len(out) < OutCap
               /\ emitted'[Len(emitted')].url = item[w].url ]_vars

\* after cancellation a record was sent for a held item, every worker has
\* exited and every item is accounted for
C9_Witness ==
  /\ ctxDone /\ Exited /\ inFlight = 0
  /\ \E i \in Emitted : emitted[i].late

\* C10: each normalized URL is passed to FetchPage at most once.
C10_FetchedAtMostOnce ==
  \A u, v \in DOMAIN fetched :
    /\ fetched[u] <= 1
    /\ u # v => normalize(u) # normalize(v)

\* C4: with workers >= 1, max_pages >= 1 and a consumer that keeps
\* receiving, the output stream is eventually closed and the consumer
\* observes the end of the stream.
C4_EventuallyClosed == <>(outCloses = 1 /\ out = <<>> /\ exitCode = 0)

\* the consumer has drained the closed stream after receiving records
C4_Witness ==
  /\ outCloses = 1 /\ out = <<>> /\ exitCode = 0
  /\ Len(written) = cfg.maxLinks /\ cfg.maxLinks >= 2

\* C8: once the context is cancelled every worker exits, the monitor drains
\* the queue and the output stream is closed; the exit-code-2 safety valve is
\* never taken.
C8_CancelLeadsToClose ==
  /\ ctxDone ~> (Exited /\ queue = <<>> /\ outCloses = 1)
  /\ [](exitCode # 2)

\* after a cancellation the monitor drained queued items and closed the stream
C8_Witness ==
  /\ ctxDone /\ Exited /\ queue = <<>> /\ outCloses = 1
  /\ queueDrained >= 2 /\ exitCode # 2

(* ---------------------------- C11 .. C20 ------------------------------- *)
\* C11: only the seed and links on the seed's site are crawled: no URL of
\* another site is passed to FetchPage and no record is emitted for one.
C11_ExternalNeverCrawled ==
  /\ \A u \in DOMAIN fetched : IsInternal(u, cfg.target)
  /\ \A i \in Emitted : IsInternal(emitted[i].url, cfg.target)

\* Nothing but the seed has been put on the queue, and no worker is about
\* to put a child there.
NoChildEnqueued ==
  /\ \A k \in 1 .. Len(queue) : queue[k].depth = 0
  /\ \A w \in Workers :
        /\ Holding(w) => item[w].depth = 0
        /\ pc[w] \notin {"add", "enq"}
  /\ inFlight <= 1
  /\ DOMAIN fetched \subseteq { cfg.target }

\* C12: with max_depth = 0 the only record is the seed's and no child is
\* enqueued, whatever the seed page links to and however many workers run;
\* a run that nothing cuts short ends with exactly that one record.
C12_DepthZeroOnlySeed ==
  cfg.maxDepth = 0 =>
    /\ Len(emitted) <= 1
    /\ \A i \in Emitted : emitted[i].url = cfg.target
    /\ NoChildEnqueued
    /\ ctxDone => Len(emitted) = 1

C12_Witness ==
  /\ cfg.maxDepth = 0 /\ cfg.workers = MaxWorkers /\ cfg.site = SiteMain
  /\ outCloses = 1 /\ Len(emitted) = 1 /\ emitted[1].status = 200

\* C13: with max_pages = 1 the only record is the seed's and none of the
\* seed's links is enqueued (the count is 1 after the seed, and 1 < 1 is
\* false); a run that nothing cuts short ends with exactly that record.
C13_OnePageOnlySeed ==
  cfg.maxLinks = 1 =>
    /\ Len(emitted) <= 1
    /\ \A i \in Emitted : emitted[i].url = cfg.target
    /\ NoChildEnqueued
    /\ ctxDone => Len(emitted) = 1

C13_Witness ==
  /\ cfg.maxLinks = 1 /\ cfg.maxDepth = MaxDepthBound /\ cfg.site = SiteMain
  /\ \E w \in Active : pc[w] = "ret" /\ Holding(w) /\ result[w] # None
                         /\ result[w].links # <<>>
  /\ Len(emitted) = 1

\* the run of C14: max_pages = 2, max_depth = 3, a seed with three children
RaceAtLimit ==
  cfg.site = SiteThree /\ cfg.maxLinks = 2 /\ cfg.maxDepth = 3

\* C14: with max_pages = 2 and a seed linking to three distinct children,
\* at most two records are emitted under every interleaving of the
\* workers, the seed's first; the finished run has exactly two records,
\* the two other fetches having taken a count above 2.
C14_ExactlyTwoAtLimit ==
  RaceAtLimit =>
    /\ Len(emitted) <= 2
    /\ \A i \in Emitted : i = 1 <=> emitted[i].url = cfg.target
    /\ ctxDone => Len(emitted) = 2 /\ resultsCount = 4

C14_Witness ==
  /\ RaceAtLimit /\ cfg.workers = MaxWorkers
  /\ Len(emitted) = 2 /\ resultsCount = 4
  /\ Cardinality(DOMAIN fetched) = 4

\* the run of C15: max_depth = 5, max_pages = 50, two pages in a cycle
LoopRun ==
  cfg.site \in { SiteLoop, SiteLoopBare } /\ cfg.maxLinks = 50
  /\ cfg.maxDepth = 5

\* C15: http://h/ links to /loop and /loop links back to the seed: the back
\* link has the seed's key in visited (trailing "/" trimmed), so it is
\* never fetched again and the run has exactly the two records.
C15_LoopTwoRecords ==
  LoopRun =>
    /\ Len(emitted) <= 2
    /\ \A u \in DOMAIN fetched : u \in { U_seed, U_loop } /\ fetched[u] = 1
    /\ ctxDone => /\ Len(emitted) = 2
                  /\ emitted[1].url = U_seed /\ emitted[2].url = U_loop

C15_Witness ==
  /\ LoopRun /\ cfg.site = SiteLoopBare /\ cfg.workers = MaxWorkers
  /\ outCloses = 1 /\ Len(emitted) = 2
  /\ emitted[2].parent = U_seed /\ emitted[2].depth = 1

\* the seed's request fails at transport level
SeedDown == cfg.target \notin DOMAIN cfg.site

\* C16: when the seed's fetch fails (status 0) the only record is the
\* seed's failure record, no child is enqueued, the safety valve
\* (os.Exit(2)) does not fire, and the stream is closed after that one
\* record.
C16_SeedFailureOneRecord ==
  /\ [](SeedDown =>
          /\ Len(emitted) <= 1
          /\ \A i \in Emitted :
                emitted[i].url = cfg.target /\ emitted[i].status = 0
          /\ NoChildEnqueued
          /\ exitCode # 2)
  /\ (SeedDown ~> (outCloses = 1 /\ Len(emitted) = 1))

C16_Witness ==
  /\ SeedDown /\ cfg.maxDepth = MaxDepthBound /\ cfg.maxLinks = MaxPages
  /\ cfg.workers = MaxWorkers
  /\ monPc = "end" /\ outCloses = 1 /\ exitCode = 0
  /\ Len(written) = 1 /\ written[1].status = 0 /\ written[1].error # ""

\* C17: every record with a Parent-URL names the URL of a record emitted
\* before it, and the records without one are the seed's (depth 0).
C17_ParentEmittedEarlier ==
  \A i \in Emitted :
    IF emitted[i].parent = None
      THEN emitted[i].url = cfg.target /\ emitted[i].depth = 0 /\ i = 1
      ELSE /\ emitted[i].depth > 0
           /\ \E j \in 1 .. i - 1 :
                 /\ emitted[j].url = emitted[i].parent
                 /\ emitted[j].depth = emitted[i].depth - 1

C17_Witness ==
  /\ cfg.site = SiteChain /\ cfg.workers = MaxWorkers
  /\ Len(emitted) = 5
  /\ emitted[3].parent = U_a /\ emitted[4].parent = U_b
  /\ emitted[5].parent = U_b

\* a configuration the driver has to reject
InvalidInput(in) ==
  \/ in.target = <<>>
  \/ "maxDepth" \in in.present /\ in.maxDepth < 0
  \/ "maxLinks" \in in.present /\ in.maxLinks <= 0
  \/ "workers" \in in.present /\ in.workers <= 0
  \/ "timeout" \in in.present /\ in.timeout = ""

\* C18: on an invalid configuration (empty target_url, max_depth < 0,
\* max_pages <= 0, workers <= 0 or empty timeout) the driver does no work:
\* no queue is created, no worker is started, no crawl is run, and the
\* only exit status is 1.
C18_InvalidConfigRejected ==
  InvalidInput(input) =>
    /\ exitCode \in {-1, 1}
    /\ drvPc \notin {"go", "range", "crawl"}
    /\ queue = <<>> /\ inFlight = 0
    /\ \A w \in Workers : pc[w] = "none"

\* C19: in JSON mode a document that sets max_depth to 0 is run with
\* max_depth = 0, not with the default depth.
C19_ExplicitDepthZeroKept ==
  ( /\ input.mode = "batch"
    /\ "maxDepth" \in input.present /\ input.maxDepth = 0
    /\ drvPc = "crawl" )
  => cfg.maxDepth = 0

\* the worker holds the record FetchPage returned
HasResult(w) == pc[w] \in {"count", "send", "gate", "link", "add", "enq"}

\* C20: FetchPage always returns a record, for the URL it was given, and
\* whenever the record's error field is non-empty its status is 0.
C20_ErrorImpliesStatusZero ==
  \A w \in Workers :
    HasResult(w) =>
      /\ result[w] # None
      /\ result[w].url = item[w].url
      /\ result[w].error # "" => result[w].status = 0

(* ---------------------------- C21 .. C30 ------------------------------- *)
\* C21: in every record sent on the output stream, and so in every record
\* main writes, links, internal_links and external_links are lists: none
\* of them is nil (JSON null), also when the fetch failed.
C21_ListsNeverNil ==
  /\ \A i \in 1 .. Len(out) : out[i].nilLists = {}
  /\ \A i \in 1 .. Len(written) : written[i].nilLists = {}

\* C22: the watchdog cancels the context only when main has received no
\* record for longer than the inactivity window; while records keep
\* arriving within the window it does not cancel.
C22_NoCancelWhileRecordsArrive ==
  [][ (wdPc = "run" /\ wdPc' = "end") => recAge > WindowTicks ]_vars

\* C23: the summary partitions the results: total_pages is their number,
\* successful counts exactly those with status 200 and failed all the
\* others, so successful + failed = total_pages; one transport-failed seed
\* gives failed = 1 and successful = 0; max_depth_reached is the largest
\* depth among the results.
C23_SummaryPartition ==
  summary # None =>
    LET ok  == { i \in 1 .. Len(results) : results[i].status = 200 }
        bad == { i \in 1 .. Len(results) : results[i].status # 200 }
    IN /\ summary.total_pages = Len(results)
       /\ summary.successful = Cardinality(ok)
       /\ summary.failed = Cardinality(bad)
       /\ summary.successful + summary.failed = summary.total_pages
       /\ ( Len(results) = 1 /\ results[1].status = 0 /\ results[1].depth = 0
              => summary.failed = 1 /\ summary.successful = 0 )
       /\ \A i \in 1 .. Len(results) :
             results[i].depth <= summary.max_depth_reached
       /\ ( results # <<>> => \E i \in 1 .. Len(results) :
             results[i].depth = summary.max_depth_reached )

\* a summary was computed over results that mix an answered page, a page
\* with another status and a transport failure at different depths
C23_Witness ==
  /\ summary # None
  /\ Len(results) = 2
  /\ results[1].status = 404 /\ results[2].status = 0
  /\ results[1].depth = 2 /\ results[2].depth = 1

\* C24: the results counter never decreases: every step leaves it unchanged
\* or adds one to it, also the steps that drop an over-limit record or
\* abort an emission; and the number of emitted records never exceeds it.
C24_CounterMonotonic ==
  /\ [](Len(emitted) <= resultsCount)
  /\ [][resultsCount' \in {resultsCount, resultsCount + 1}]_vars

\* the counter is ahead of the emissions: a record was counted and then
\* dropped as over-limit or its emission was aborted by the cancellation
C24_Witness ==
  /\ resultsCount > Len(emitted)
  /\ \E w \in Active : pc[w] = "ret" /\ result[w] # None
  /\ \A w \in Active : pc[w] # "send"

\* the link attributes of the document, resolved, in document order
DocRefs ==
  LET kept == SelectSeq(body, IsLinkAttr)
  IN [ i \in 1 .. Len(kept) |->
         ResolveReference(pageURL, TrimSpace(kept[i].val)) ]

\* position of the first attribute of the document that resolves to u
FirstSeen(u) ==
  CHOOSE k \in 1 .. Len(DocRefs) :
    DocRefs[k] = u /\ \A j \in 1 .. k - 1 : DocRefs[j] # u

\* C25: the list extractLinks returns has no duplicates, holds exactly the
\* URLs the document refers to, and is ordered by first appearance in the
\* document.
C25_NoDuplicatesFirstSeen ==
  extracted # None =>
    LET links == extracted.links
    IN /\ \A i, j \in 1 .. Len(links) : i # j => links[i] # links[j]
       /\ { links[i] : i \in 1 .. Len(links) }
            = { DocRefs[k] : k \in 1 .. Len(DocRefs) }
       /\ \A i, j \in 1 .. Len(links) :
            i < j => FirstSeen(links[i]) < FirstSeen(links[j])

\* a document that refers to the same URL twice, in two spellings, with
\* another URL in between, was extracted
C25_Witness ==
  /\ extracted # None
  /\ pageURL = U_seed
  /\ body = << [key |-> "href", val |-> <<"/", "a">>],
               [key |-> "src", val |-> <<"/", "b">>],
               [key |-> "href", val |-> U_a] >>
  /\ extracted.links = << U_a, U_b >>

\* the host of a URL without a leading "www."
HostNoWww(url) ==
  LET host == Authority(url)
  IN IF host # <<>> /\ Head(host) = "www." THEN Tail(host) ELSE host

Categorized == extracted # None /\ "internal" \in DOMAIN extracted

\* C26: a link is classified internal exactly when its host and the page's
\* host are equal after dropping a leading "www." (h and www.h are the
\* same site, whichever of them is the page), and categorizeLinks splits
\* the list: every link is in exactly one of internal and external, each
\* of them in the order of the list.
C26_WwwSymmetricPartition ==
  Categorized =>
    LET links == extracted.links
        int == { extracted.internal[i] : i \in 1 .. Len(extracted.internal) }
        ext == { extracted.external[i] : i \in 1 .. Len(extracted.external) }
    IN /\ \A i \in 1 .. Len(links) :
            links[i] \in int <=> HostNoWww(links[i]) = HostNoWww(pageURL)
       /\ int \cap ext = {}
       /\ extracted.internal = SelectSeq(links, LAMBDA l : l \in int)
       /\ extracted.external = SelectSeq(links, LAMBDA l : l \in ext)
       /\ Len(extracted.internal) + Len(extracted.external) = Len(links)

AllWorkersExited == \A w \in Active : pc[w] = "exited"

\* C27: the supervisor closes the output stream only when every worker has
\* exited, the queue is empty and the in-flight counter is zero; it takes
\* an item out of the queue only after every worker has exited, and
\* decrements the in-flight counter by one for each item it takes out.
C27_CloseAfterExitDrainZero ==
  [][ /\ outCloses' # outCloses =>
           AllWorkersExited /\ queue = <<>> /\ inFlight = 0
      /\ queueDrained' # queueDrained =>
           /\ AllWorkersExited
           /\ queueDrained' = queueDrained + 1
           /\ queue' = Tail(queue)
           /\ inFlight' = inFlight - 1 ]_vars

\* the stream was closed after the supervisor had drained an item that the
\* cancellation left in the queue
C27_Witness ==
  /\ outCloses = 1
  /\ queueDrained > 0
  /\ ctxDone

\* the record of the item worker w holds is on the output stream
RecordEmitted(w) ==
  \E i \in 1 .. Len(emitted) :
    emitted[i].url = item[w].url /\ emitted[i].depth = item[w].depth

\* C28: a worker is in its enqueue loop only after the record of its item
\* was emitted and only for an item of depth < max_depth; it enters the
\* loop only when the counter it reads is < max_pages; every item put on
\* the queue has the depth of the enqueuing worker's item plus one; no
\* item of depth > max_depth is in the queue.
C28_EnqueueAfterEmitGate ==
  /\ [](\A w \in Active :
          pc[w] \in {"link", "add", "enq"} =>
            RecordEmitted(w) /\ item[w].depth < cfg.maxDepth)
  /\ [](\A i \in 1 .. Len(queue) : queue[i].depth <= cfg.maxDepth)
  /\ [][ \A w \in Active :
           /\ pc[w] = "gate" /\ pc'[w] = "link" =>
                resultsCount < cfg.maxLinks /\ item[w].depth < cfg.maxDepth
           /\ pc[w] = "enq" /\ pc'[w] = "link" =>
                /\ RecordEmitted(w)
                /\ queue'[Len(queue')].depth = item[w].depth + 1
                /\ queue'[Len(queue')].parent = item[w].url ]_vars

\* a child at the deepest level allowed is in the queue, put there by a
\* worker whose record is on the stream
C28_Witness ==
  /\ cfg.maxDepth = 1
  /\ \E i \in 1 .. Len(queue) : queue[i].depth = 1
  /\ \E w \in Active : pc[w] = "link" /\ idx[w] > 1 /\ RecordEmitted(w)

\* C29: a link whose normalized URL is in the visited set is not put on the
\* queue; a worker does not go on to fetch a dequeued item whose normalized
\* URL is in the visited set; the visited set grows only by the URL a
\* worker claims before its fetch, not when a child is enqueued, and
\* nothing is ever removed from it.
C29_VisitedDedup ==
  [][ /\ \A w \in Active :
           /\ pc[w] = "enq" /\ pc'[w] = "link" =>
                normalize(queue'[Len(queue')].url) \notin visited
           /\ pc[w] = "mark" /\ pc'[w] = "fetch" =>
                normalize(item[w].url) \notin visited
      /\ visited \subseteq visited'
      /\ visited' # visited =>
           \E w \in Active :
             /\ pc[w] = "mark" /\ pc'[w] = "fetch"
             /\ visited' = visited \cup { normalize(item[w].url) }
             /\ queue' = queue ]_vars

\* C30: the forced-shutdown signal is raised by one step only, taken when
\* the context is cancelled and the signal is not yet raised, after which
\* the goroutine that raises it has ended; while the context is not
\* cancelled the signal is not raised.
C30_ForcedShutdownOnceAfterCancel ==
  /\ [](doneClosed => ctxDone /\ fsPc = "end")
  /\ [][ doneClosed' # doneClosed =>
           ~doneClosed /\ ctxDone /\ fsPc = "wait" /\ fsPc' = "end" ]_vars
  /\ [][ fsPc' # fsPc => fsPc = "wait" /\ ~doneClosed /\ doneClosed' ]_vars

\* the signal was raised after a cancellation and a worker has exited
C30_Witness ==
  /\ doneClosed /\ ctxDone
  /\ \E w \in Active : pc[w] = "exited"

(* ---------------------------- C31 .. C38 ------------------------------- *)
\* the record r is the one the history holds for the send e
SameRecord(r, e) ==
  /\ r.url = e.url /\ r.depth = e.depth
  /\ r.parent = e.parent /\ r.status = e.status

\* C31: the records main has written, followed by those still buffered in
\* the channel, are exactly the records the workers sent, in the order of
\* the sends, each once; main has exited with status 0 only when the
\* stream is closed, nothing is buffered and every record sent is written.
C31_EveryRecordWrittenOnce ==
  /\ Len(written) + Len(out) = Len(emitted)
  /\ \A i \in 1 .. Len(written) : SameRecord(written[i], emitted[i])
  /\ \A i \in 1 .. Len(out) : SameRecord(out[i], emitted[Len(written) + i])
  /\ exitCode = 0 =>
       outCloses > 0 /\ out = <<>> /\ Len(written) = Len(emitted)

\* the stream is closed while records are still in the channel, and main
\* has written some and not yet all of them
C31_Witness ==
  /\ outCloses = 1 /\ Len(out) >= 1 /\ Len(written) >= 1
  /\ exitCode = -1

\* C32: in batch mode the results list never holds more than max_links
\* results, so the summary's total_pages is at most max_links.
C32_BatchResultsAtMostMaxLinks ==
  /\ Len(results) <= cfg.maxLinks
  /\ summary # None => summary.total_pages <= cfg.maxLinks

\* two workers fetched at the limit: one result was appended, the other
\* was refused by the counter, and the summary was made
C32_Witness ==
  /\ cfg.workers = 2
  /\ Len(results) = cfg.maxLinks /\ resultsCount > cfg.maxLinks
  /\ summary # None /\ summary.total_pages = cfg.maxLinks

\* C33: when the output stream is closed every worker has exited, so none
\* is at or before its output send; and every send finds the stream open.
C33_NoSendAfterClose ==
  /\ [](outCloses > 0 => \A w \in Active : pc[w] = "exited")
  /\ [][ emitted' # emitted => outCloses = 0 /\ outCloses' = 0 ]_vars

\* the stream was closed after records were sent and after a worker gave
\* up a record it had already counted
C33_Witness ==
  /\ outCloses = 1
  /\ Len(emitted) >= 2
  /\ resultsCount > Len(emitted)
  /\ cfg.workers = 2

\* C34: when the supervisor is at its wait on the in-flight counter every
\* worker has exited, the queue is empty and the counter is zero; the
\* branch of the 10 s ceiling is never taken and the process never exits
\* with status 2.
C34_SafetyValveUnreachable ==
  /\ monPc = "wait" => Exited /\ queue = <<>> /\ inFlight = 0
  /\ monPc # "fatal"
  /\ exitCode # 2

\* the supervisor is at its wait after it drained items a cancellation
\* left in the queue
C34_Witness ==
  /\ monPc = "wait"
  /\ queueDrained >= 1
  /\ inFlight = 0

\* C35: the output stream is closed only after the context was cancelled:
\* while it is not cancelled no worker has left its loop, the supervisor is
\* still waiting for the workers and the stream is open, also when all
\* work has been disposed of.
C35_ClosedOnlyAfterCancel ==
  /\ outCloses > 0 => ctxDone
  /\ ~ctxDone =>
       /\ \A w \in Active : pc[w] # "exited"
       /\ monPc = "wgwait"
       /\ outCloses = 0

\* all work is disposed of (records sent, queue empty, nothing in flight,
\* every worker back at its loop), nothing has cancelled the context and
\* the stream is open
C35_Witness ==
  /\ ~ctxDone /\ outCloses = 0
  /\ Len(emitted) >= 2
  /\ queue = <<>> /\ inFlight = 0
  /\ \A w \in Active : pc[w] = "loop"

\* worker w is inside addLinksToQueue with a link still to send
InAddLinks(w) ==
  /\ pc[w] \in {"links", "send"}
  /\ \E k \in idx[w] .. Len(result[w].internalLinks) :
       result[w].internalLinks[k] \notin visited \/ pc[w] = "send"

\* C36: in batch mode, when the work queue is closed no worker is inside
\* addLinksToQueue with a link still to send, and no send finds the queue
\* closed (which would be a panic).
C36_NoSendOnClosedQueue ==
  /\ queueClosed => \A w \in Active : ~InAddLinks(w)
  /\ \A w \in Active : pc[w] # "panic"

\* a page is outstanding when it is in the queue or a worker has dequeued
\* it and not finished processing it
NoPageOutstanding ==
  /\ queue = <<>>
  /\ \A w \in Active : pc[w] \in {"recv", "exited"}

\* C37: in batch mode the monitor closes the work queue only when max_links
\* results have been collected or no page is outstanding: the queue is
\* empty and no worker holds a page it has dequeued and not finished, also
\* one it has not yet counted in activeJobs.
C37_CloseOnlyWhenDone ==
  [][ queueClosed' # queueClosed =>
        Len(results) >= cfg.maxLinks \/ NoPageOutstanding ]_vars

\* C38: in the older CrawlStream no worker's output send meets the closed
\* stream: when the stream is closed no worker is waiting in its output
\* send, and no send has found the stream closed (which is a panic), also
\* after the monitor has closed the stream by force.
C38_OldNoSendAfterClose ==
  /\ outCloses > 0 => \A w \in Active : pc[w] # "send"
  /\ \A w \in Active : pc[w] # "panic"

====
